---- MODULE Spec2Model ----
(***************************************************************************)
(* Model of the document analyzer of my-first-flask-app:                   *)
(*   parsers/doc_parser.py       DocParser.summarize and the run merge     *)
(*   parsers/paragraph_parser.py parse_paragraphs, merge_runs              *)
(*   parsers/drawing_parser.py   DrawingParser.parse and its detectors     *)
(*   parsers/table_parser.py     parse_all_tables_in_document              *)
(*   parsers/image_parser.py     parse_all_images_in_document              *)
(*   parsers/utils.py            get_xml, merge_across_sources, the unit   *)
(*                               conversions                               *)
(*   standard_manager.py         StandardAnswerManager.check_and_insert    *)
(*                                                                         *)
(* Strings are sequences of symbols (a symbol is a one-element TLA+        *)
(* string), so that concatenation, strip, prefix and suffix tests are      *)
(* computed.  An XML element is a record [tag, attr, text, kids]; the      *)
(* ElementTree searches find / findall are computed over that tree.        *)
(***************************************************************************)
EXTENDS Integers, Sequences, FiniteSets, TLC

\* ------------------------------------------------------------------------
\* Bounds
\* ------------------------------------------------------------------------
\* number of entries of the archive handed to summarize
MaxParts == 2
\* length of the run sequences handed to _merge_runs_by_style on its own
MaxRuns == 3
\* number of half thousandths of a centimetre the EMU inputs go up to
MaxEmuStep == 40
\* largest cell width in twips of the run of widths 0, 1, 2, ...
MaxTwips == 40

\* ------------------------------------------------------------------------
\* Python values
\* ------------------------------------------------------------------------
\* None where a string is expected (an element without text, a missing
\* attribute): a one-symbol sequence that no document contains
NoneText == <<"<None>">>

\* the elements of a sequence, the values of a function
Range(f) == {f[k] : k \in DOMAIN f}

\* Python truthiness of an optional string: None and "" are falsy
Falsy(t) == t = NoneText \/ t = <<>>

\* the whitespace str.strip() removes: blank and newline
IsSpace(c) == c \in {" ", "\n"}

\* str.strip()
RECURSIVE LStrip(_)
LStrip(s) == IF s # <<>> /\ IsSpace(Head(s)) THEN LStrip(Tail(s)) ELSE s

RECURSIVE RStrip(_)
RStrip(s) ==
    IF s # <<>> /\ IsSpace(s[Len(s)]) THEN RStrip(SubSeq(s, 1, Len(s) - 1)) ELSE s

Strip(s) == RStrip(LStrip(s))

\* "".join(list of strings)
RECURSIVE Join(_)
Join(ss) == IF ss = <<>> THEN <<>> ELSE Head(ss) \o Join(Tail(ss))

\* [f(x) for x in s]
Map(s, f(_)) == [k \in 1..Len(s) |-> f(s[k])]

\* ------------------------------------------------------------------------
\* XML elements and the ElementTree searches
\* ------------------------------------------------------------------------
NoAttr == [k \in {} |-> <<>>]

EA(tag, attr, kids) == [tag |-> tag, attr |-> attr, text |-> NoneText, kids |-> kids]
E(tag, kids) == EA(tag, NoAttr, kids)
\* <w:t>text</w:t>; ElementTree gives text None for <w:t/>
WT(text) == [tag |-> "w:t", attr |-> NoAttr, text |-> text, kids |-> <<>>]

\* element.attrib.get(key)
AttrGet(n, key) == IF key \in DOMAIN n.attr THEN n.attr[key] ELSE NoneText
\* element.attrib.get(key, default)
AttrGetDefault(n, key, default) == IF key \in DOMAIN n.attr THEN n.attr[key] ELSE default

\* all elements below the elements of ns, in document order
RECURSIVE DescSeq(_)
DescSeq(ns) ==
    IF ns = <<>> THEN <<>>
    ELSE <<Head(ns)>> \o DescSeq(Head(ns).kids) \o DescSeq(Tail(ns))

\* findall(".//tag") from n
FindAllDesc(n, tag) == SelectSeq(DescSeq(n.kids), LAMBDA d : d.tag = tag)
\* findall("tag") from n: direct children only
FindAllChild(n, tag) == SelectSeq(n.kids, LAMBDA d : d.tag = tag)

\* one "/tag" step of a path applied to every element of ns
RECURSIVE StepChild(_, _)
StepChild(ns, tag) ==
    IF ns = <<>> THEN <<>>
    ELSE FindAllChild(Head(ns), tag) \o StepChild(Tail(ns), tag)

\* one "//tag" step of a path applied to every element of ns
RECURSIVE StepDesc(_, _)
StepDesc(ns, tag) ==
    IF ns = <<>> THEN <<>>
    ELSE FindAllDesc(Head(ns), tag) \o StepDesc(Tail(ns), tag)

\* find(...) is not None
Found(ns) == ns # <<>>

\* ------------------------------------------------------------------------
\* Numbers read from attribute strings
\* ------------------------------------------------------------------------
\* An optional number is <<>> (None) or <<n>>.
Digits == <<"0", "1", "2", "3", "4", "5", "6", "7", "8", "9">>
IsDigit(c) == \E d \in 1..10 : Digits[d] = c
DigitVal(c) == (CHOOSE d \in 1..10 : Digits[d] = c) - 1

RECURSIVE DigitsVal(_)
DigitsVal(s) ==
    IF s = <<>> THEN 0 ELSE 10 * DigitsVal(SubSeq(s, 1, Len(s) - 1)) + DigitVal(s[Len(s)])

\* int(v) / float(v) of a string of decimal digits; any other string, and
\* None, raises (the result is <<>>)
ParseInt(v) ==
    IF v # NoneText /\ v # <<>> /\ \A k \in 1..Len(v) : IsDigit(v[k])
    THEN <<DigitsVal(v)>> ELSE <<>>

\* utils.HALF_POINT_TO_PT = 0.5, as hundredths of a point per half-point
HALF_POINT_TO_PT == 50

\* utils.half_point_to_pt: hundredths of a point, None when v is not a number
half_point_to_pt(v) ==
    IF ParseInt(v) = <<>> THEN <<>> ELSE <<ParseInt(v)[1] * HALF_POINT_TO_PT>>

\* round(twips / 20.0 * 0.0352778, 3), as thousandths of a centimetre
TwipsToCm(twips) == (twips * 176389 + 50000) \div 100000

\* int(v) of a string: blanks around it are dropped, a sign may come before
\* the decimal digits; any other string, and None, raises (the result is <<>>)
ParseSignedInt(v) ==
    IF v = NoneText THEN <<>>
    ELSE LET s == Strip(v)
         IN  IF s # <<>> /\ s[1] \in {"-", "+"}
             THEN IF ParseInt(Tail(s)) = <<>> THEN <<>>
                  ELSE <<(IF s[1] = "-" THEN -1 ELSE 1) * ParseInt(Tail(s))[1]>>
             ELSE ParseInt(s)

\* utils.EMU_PER_CM = 360000.0
EMU_PER_CM == 360000

\* variant: the quotient is cut off after the third decimal place
emu_to_cm_Truncate(v, float_above) ==
    IF ParseSignedInt(v) = <<>> THEN <<>>
    ELSE <<ParseSignedInt(v)[1] \div (EMU_PER_CM \div 1000)>>

\* utils.emu_to_cm: round(int(v) / EMU_PER_CM, 3) as thousandths of a
\* centimetre, None when int(v) raises. The quotient is a binary float: for
\* an input halfway between two thousandths it lies just above or just below
\* the midpoint (float_above), and round follows the float.
emu_to_cm(v, float_above) ==
    IF ParseSignedInt(v) = <<>> THEN <<>>
    ELSE LET n == ParseSignedInt(v)[1]
             per == EMU_PER_CM \div 1000
             q == n \div per
             r == n % per
         IN  <<IF 2 * r < per THEN q
               ELSE IF 2 * r > per THEN q + 1
               ELSE IF float_above THEN q + 1 ELSE q>>

\* ------------------------------------------------------------------------
\* Run style (paragraph_parser.parse_run_props)
\* ------------------------------------------------------------------------
\* A style dict: keys is the set of keys present, the other fields hold the
\* value of each key (the default below when the key is absent).  bold,
\* italic, underline and strike only ever hold True, so their key says all.
NoFonts == [ascii |-> NoneText, eastAsia |-> NoneText, cs |-> NoneText, hAnsi |-> NoneText]

EmptyStyle ==
    [keys |-> {}, styleName |-> NoneText, fonts |-> NoFonts, size_pt |-> <<>>,
     color |-> NoneText, background_color |-> NoneText, spacing_cm |-> <<>>]

First(ns) == ns[1]

parse_run_props(r) ==
    LET rPrs == FindAllChild(r, "w:rPr") IN
    IF ~Found(rPrs) THEN EmptyStyle
    ELSE
    LET rPr == First(rPrs)
        rStyle == FindAllChild(rPr, "w:rStyle")
        rFonts == FindAllChild(rPr, "w:rFonts")
        sz == FindAllChild(rPr, "w:sz")
        color == FindAllChild(rPr, "w:color")
        spacing == FindAllChild(rPr, "w:spacing")
        shd == FindAllChild(rPr, "w:shd")
        hasName == Found(rStyle) /\ ~Falsy(AttrGet(First(rStyle), "w:val"))
        hasColor == Found(color) /\ ~Falsy(AttrGet(First(color), "w:val"))
        hasSpacing == Found(spacing) /\ ~Falsy(AttrGet(First(spacing), "w:val"))
                        /\ ParseInt(AttrGet(First(spacing), "w:val")) # <<>>
        hasShd == Found(shd) /\ ~Falsy(AttrGet(First(shd), "w:fill"))
    IN  [keys |->
            (IF hasName THEN {"styleName"} ELSE {})
            \cup (IF Found(rFonts) THEN {"fonts"} ELSE {})
            \cup (IF Found(sz) THEN {"size_pt"} ELSE {})
            \cup (IF Found(FindAllChild(rPr, "w:b")) THEN {"bold"} ELSE {})
            \cup (IF Found(FindAllChild(rPr, "w:i")) THEN {"italic"} ELSE {})
            \cup (IF hasColor THEN {"color"} ELSE {})
            \cup (IF hasSpacing THEN {"spacing_cm"} ELSE {})
            \cup (IF hasShd THEN {"background_color"} ELSE {})
            \cup (IF Found(FindAllChild(rPr, "w:u")) THEN {"underline"} ELSE {})
            \cup (IF Found(FindAllChild(rPr, "w:strike")) THEN {"strike"} ELSE {}),
         styleName |-> IF hasName THEN AttrGet(First(rStyle), "w:val") ELSE NoneText,
         fonts |-> IF Found(rFonts)
                   THEN [ascii |-> AttrGet(First(rFonts), "w:ascii"),
                         eastAsia |-> AttrGet(First(rFonts), "w:eastAsia"),
                         cs |-> AttrGet(First(rFonts), "w:cs"),
                         hAnsi |-> AttrGet(First(rFonts), "w:hAnsi")]
                   ELSE NoFonts,
         size_pt |-> IF Found(sz) THEN half_point_to_pt(AttrGet(First(sz), "w:val")) ELSE <<>>,
         color |-> IF hasColor THEN <<"#">> \o AttrGet(First(color), "w:val") ELSE NoneText,
         background_color |-> IF hasShd THEN <<"#">> \o AttrGet(First(shd), "w:fill") ELSE NoneText,
         spacing_cm |-> IF hasSpacing
                        THEN <<TwipsToCm(ParseInt(AttrGet(First(spacing), "w:val"))[1])>>
                        ELSE <<>>]

\* ------------------------------------------------------------------------
\* merge_runs (paragraph_parser.py)
\* ------------------------------------------------------------------------
\* A run is [text, style].
\* variant: only None counts as no text ("is not None" for truthiness)
HasText_NotNone(text) == text # NoneText

\* the truth value of a run text: a run has text unless it is None or ""
HasText(text) == ~Falsy(text)

\* style.get(attr) of a flag: True or None
FlagGet(style, attr) == attr \in style.keys

StyleFalsy(style) == style.keys = {}

styles_equal(style1, style2) ==
    IF StyleFalsy(style1) /\ StyleFalsy(style2) THEN TRUE
    ELSE IF StyleFalsy(style1) \/ StyleFalsy(style2) THEN FALSE
    ELSE /\ style1.styleName = style2.styleName
         /\ \A attr \in {"bold", "italic", "underline", "strike"} :
                FlagGet(style1, attr) = FlagGet(style2, attr)
         /\ style1.size_pt = style2.size_pt
         /\ style1.color = style2.color
         /\ style1.background_color = style2.background_color
         /\ style1.spacing_cm = style2.spacing_cm
         /\ ("fonts" \in style1.keys) = ("fonts" \in style2.keys)
         /\ style1.fonts = style2.fonts

RECURSIVE MergeRunsFrom(_, _)
MergeRunsFrom(runs, merged) ==
    IF runs = <<>> THEN merged
    ELSE LET r == Head(runs)
             last == Len(merged)
         IN  IF ~HasText(r.text) THEN MergeRunsFrom(Tail(runs), merged)
             ELSE IF merged # <<>> /\ styles_equal(r.style, merged[last].style)
             THEN MergeRunsFrom(Tail(runs),
                    [merged EXCEPT ![last].text = merged[last].text \o r.text])
             ELSE MergeRunsFrom(Tail(runs), Append(merged, r))

merge_runs(runs) == MergeRunsFrom(runs, <<>>)

\* ------------------------------------------------------------------------
\* DocParser._merge_runs_by_style (doc_parser.py)
\* ------------------------------------------------------------------------
\* str(n) of a natural number
RECURSIVE NatStr(_)
NatStr(n) == IF n < 10 THEN <<Digits[n + 1]>> ELSE NatStr(n \div 10) \o <<Digits[(n % 10) + 1]>>

\* the digits of frac (< 10^width) after the decimal point, without
\* trailing zeros but at least one digit
RECURSIVE FracStr(_, _)
FracStr(frac, width) ==
    IF width = 1 THEN NatStr(frac)
    ELSE IF frac % 10 = 0 THEN FracStr(frac \div 10, width - 1)
    ELSE FracStr(frac \div 10, width - 1) \o <<Digits[(frac % 10) + 1]>>

\* str(x) of an optional float held as n / 10^width
FloatStr(x, width) ==
    IF x = <<>> THEN <<"None">>
    ELSE LET unit == IF width = 2 THEN 100 ELSE 1000
         IN  NatStr(x[1] \div unit) \o <<".">> \o FracStr(x[1] % unit, width)

\* str(v) of an optional string
Str(v) == IF v = NoneText THEN <<"None">> ELSE v

\* sep.join(parts)
RECURSIVE JoinWith(_, _)
JoinWith(parts, sep) ==
    IF parts = <<>> THEN <<>>
    ELSE IF Len(parts) = 1 THEN Head(parts)
    ELSE Head(parts) \o sep \o JoinWith(Tail(parts), sep)

\* the f"{attr}:{style[attr]}" part of one attribute
KeyPart(style, attr) ==
    <<attr, ":">> \o
    CASE attr \in {"bold", "italic", "underline", "strike"} -> <<"True">>
      [] attr = "size_pt" -> FloatStr(style.size_pt, 2)
      [] attr = "color" -> Str(style.color)
      [] attr = "background_color" -> Str(style.background_color)
      [] attr = "spacing_cm" -> FloatStr(style.spacing_cm, 3)

\* the attributes in the fixed order of the loop of create_style_key
StyleKeyAttrs ==
    <<"bold", "italic", "underline", "strike", "size_pt", "color",
      "background_color", "spacing_cm">>

create_style_key(style) ==
    IF StyleFalsy(style) THEN <<>>
    ELSE LET present == SelectSeq(StyleKeyAttrs, LAMBDA attr : attr \in style.keys)
             key_parts == [k \in 1..Len(present) |-> KeyPart(style, present[k])]
             fonts_str == JoinWith(<< <<"ascii", ":">> \o Str(style.fonts.ascii),
                                      <<"cs", ":">> \o Str(style.fonts.cs),
                                      <<"eastAsia", ":">> \o Str(style.fonts.eastAsia),
                                      <<"hAnsi", ":">> \o Str(style.fonts.hAnsi) >>, <<",">>)
         IN  JoinWith(IF "fonts" \in style.keys
                      THEN Append(key_parts, <<"fonts", ":">> \o fonts_str)
                      ELSE key_parts, <<"|">>)

\* variant: "=" for "+=", the text of the group is overwritten
Accumulate_Overwrite(current_group, text) == [current_group EXCEPT !.text = text]

\* current_group['text'] += text
Accumulate(current_group, text) == [current_group EXCEPT !.text = @ \o text]

\* merged.append(current_group), only when the group holds text
Flush(merged, current_group) ==
    IF HasText(current_group.text) THEN Append(merged, current_group) ELSE merged

\* the loop over runs[1:]: merged is the output so far, current_group the
\* accumulator and current_style_key its key
RECURSIVE MergeByStyleFrom(_, _, _, _)
MergeByStyleFrom(runs, merged, current_group, current_style_key) ==
    IF runs = <<>> THEN Flush(merged, current_group)
    ELSE LET run == Head(runs)
             style_key == create_style_key(run.style)
         IN  IF style_key = current_style_key /\ HasText(run.text)
             THEN MergeByStyleFrom(Tail(runs), merged,
                    Accumulate(current_group, run.text), current_style_key)
             ELSE MergeByStyleFrom(Tail(runs), Flush(merged, current_group),
                    [text |-> run.text, style |-> run.style], style_key)

merge_runs_by_style(runs) ==
    IF runs = <<>> THEN <<>>
    ELSE MergeByStyleFrom(Tail(runs), <<>>,
            [text |-> Head(runs).text, style |-> Head(runs).style],
            create_style_key(Head(runs).style))

\* ------------------------------------------------------------------------
\* Paragraphs (paragraph_parser.py)
\* ------------------------------------------------------------------------
\* the spacing / indent dict of one element: raw holds every attribute as
\* written, cm the converted companion of each attribute of convert whose
\* value is an integer (the others are left without companion)
ConvertedAttrs(el, convert) ==
    LET ok == {k \in (DOMAIN el.attr) \cap convert : ParseInt(el.attr[k]) # <<>>}
    IN  [raw |-> el.attr, cm |-> [k \in ok |-> TwipsToCm(ParseInt(el.attr[k])[1])]]

NoConverted == [raw |-> NoAttr, cm |-> [k \in {} |-> 0]]

\* the w:tab elements of a paragraph: pPr.findall("w:tabs/w:tab")
TabsOf(pPr) == StepChild(FindAllChild(pPr, "w:tabs"), "w:tab")

\* float(tab.attrib.get(pos, "0")) raises ValueError on a non-numeric position
TabRaises(tab) == ParseInt(AttrGetDefault(tab, "w:pos", <<"0">>)) = <<>>

tab_info(tab) ==
    LET pos_twips == ParseInt(AttrGetDefault(tab, "w:pos", <<"0">>))[1]
    IN  [pos_twips |-> pos_twips,
         pos_cm |-> TwipsToCm(pos_twips),
         align |-> AttrGetDefault(tab, "w:val", <<"left">>),
         leader |-> AttrGetDefault(tab, "w:leader", <<"none">>)]

EmptyProps ==
    [keys |-> {}, styleName |-> NoneText, align |-> NoneText,
     spacing |-> NoConverted, indent |-> NoConverted, tabs |-> <<>>,
     numId |-> NoneText, level |-> NoneText]

\* parse_paragraph_props raises when a tab position is not a number
ParagraphPropsRaises(p) ==
    LET pPrs == FindAllChild(p, "w:pPr")
    IN  Found(pPrs) /\ \E k \in 1..Len(TabsOf(First(pPrs))) : TabRaises(TabsOf(First(pPrs))[k])

parse_paragraph_props(p) ==
    LET pPrs == FindAllChild(p, "w:pPr") IN
    IF ~Found(pPrs) THEN EmptyProps
    ELSE
    LET pPr == First(pPrs)
        pStyle == FindAllChild(pPr, "w:pStyle")
        jc == FindAllChild(pPr, "w:jc")
        sp == FindAllChild(pPr, "w:spacing")
        ind == FindAllChild(pPr, "w:ind")
        tabs == Map(TabsOf(pPr), tab_info)
        numPr == FindAllChild(pPr, "w:numPr")
        hasName == Found(pStyle) /\ ~Falsy(AttrGet(First(pStyle), "w:val"))
        numId == IF Found(numPr) THEN FindAllChild(First(numPr), "w:numId") ELSE <<>>
        ilvl == IF Found(numPr) THEN FindAllChild(First(numPr), "w:ilvl") ELSE <<>>
    IN  [keys |->
            (IF hasName THEN {"styleName"} ELSE {})
            \cup (IF Found(jc) THEN {"align"} ELSE {})
            \cup (IF Found(sp) THEN {"spacing"} ELSE {})
            \cup (IF Found(ind) THEN {"indent"} ELSE {})
            \cup (IF tabs # <<>> THEN {"tabs"} ELSE {})
            \cup (IF Found(numPr) THEN {"numbering"} ELSE {}),
         styleName |-> IF hasName THEN AttrGet(First(pStyle), "w:val") ELSE NoneText,
         align |-> IF Found(jc) THEN AttrGet(First(jc), "w:val") ELSE NoneText,
         spacing |-> IF Found(sp)
                     THEN ConvertedAttrs(First(sp), {"w:line", "w:before", "w:after"})
                     ELSE NoConverted,
         indent |-> IF Found(ind)
                    THEN ConvertedAttrs(First(ind), {"w:left", "w:right", "w:firstLine",
                                                     "w:hanging", "w:start", "w:end"})
                    ELSE NoConverted,
         tabs |-> tabs,
         numId |-> IF Found(numId) THEN AttrGet(First(numId), "w:val") ELSE NoneText,
         level |-> IF Found(ilvl) THEN AttrGet(First(ilvl), "w:val") ELSE NoneText]

\* the texts of the elements of ts that have a non-empty text
TruthyTexts(ts) == Map(SelectSeq(ts, LAMBDA t : ~Falsy(t.text)), LAMBDA t : t.text)

extract_paragraph_text(p) == Strip(Join(TruthyTexts(FindAllDesc(p, "w:t"))))

\* the test of parse_paragraphs that keeps a WordArt carrier out of the
\* paragraph collection
IsWordArtCarrier(p) ==
    \/ Found(FindAllDesc(p, "w14:textEffect"))
    \/ Found(StepDesc(FindAllDesc(p, "wps:wsp"), "w14:textEffect"))
    \/ Found(StepDesc(FindAllDesc(p, "mc:AlternateContent"), "w14:textEffect"))
    \/ Found(StepChild(StepChild(StepChild(StepChild(FindAllDesc(p, "a:graphic"),
                "a:graphicData"), "a:txBody"), "a:bodyPr"), "a:prstTxWarp"))
    \/ Found(FindAllDesc(p, "v:textpath"))

\* the run of one w:r child: the text of its first w:t child, "" without one
RunOf(r) ==
    LET t == FindAllChild(r, "w:t")
    IN  [text |-> IF Found(t) THEN First(t).text ELSE <<>>, style |-> parse_run_props(r)]

\* the paragraph record appended for the idx-th w:p of the part
ParagraphOf(p, idx, part_name) ==
    [source |-> part_name,
     idx |-> idx,
     text |-> extract_paragraph_text(p),
     runs |-> merge_runs(Map(FindAllChild(p, "w:r"), RunOf)),
     props |-> parse_paragraph_props(p)]

\* the loop of parse_paragraphs from the idx-th w:p on: the paragraphs
\* appended to out, and whether the loop ended in an exception
RECURSIVE ParseParagraphsFrom(_, _, _, _)
ParseParagraphsFrom(ps, idx, part_name, acc) ==
    IF idx > Len(ps) THEN [paragraphs |-> acc, raised |-> FALSE]
    ELSE IF IsWordArtCarrier(ps[idx]) THEN ParseParagraphsFrom(ps, idx + 1, part_name, acc)
    ELSE IF ParagraphPropsRaises(ps[idx]) THEN [paragraphs |-> acc, raised |-> TRUE]
    ELSE ParseParagraphsFrom(ps, idx + 1, part_name,
            Append(acc, ParagraphOf(ps[idx], idx, part_name)))

parse_paragraphs(root, part_name) ==
    ParseParagraphsFrom(FindAllDesc(root, "w:p"), 1, part_name, <<>>)

\* ------------------------------------------------------------------------
\* DrawingParser (drawing_parser.py)
\* ------------------------------------------------------------------------
\* A or B of two optional strings
OrElse(a, b) == IF ~Falsy(a) THEN a ELSE b

NoGeometry == [key |-> <<>>, value |-> NoneText]

extract_font(node) ==
    LET rFonts == FindAllDesc(node, "w:rFonts")
    IN  IF Found(rFonts)
        THEN OrElse(AttrGet(First(rFonts), "w:ascii"), AttrGet(First(rFonts), "w:hAnsi"))
        ELSE NoneText

extract_size(node) ==
    LET sz == FindAllDesc(node, "w:sz")
    IN  IF Found(sz) THEN half_point_to_pt(AttrGet(First(sz), "w:val")) ELSE <<>>

extract_color(node) ==
    LET color == FindAllDesc(node, "w:color")
    IN  IF Found(color) /\ ~Falsy(AttrGet(First(color), "w:val"))
        THEN <<"#">> \o AttrGet(First(color), "w:val") ELSE NoneText

extract_warp(node) ==
    LET prst == FindAllDesc(node, "a:prstTxWarp")
    IN  IF Found(prst) THEN [key |-> <<"prstTxWarp">>, value |-> AttrGet(First(prst), "prst")]
        ELSE NoGeometry

extract_fill(node) ==
    LET solid == StepChild(FindAllDesc(node, "a:solidFill"), "a:srgbClr")
    IN  IF Found(solid) /\ "val" \in DOMAIN First(solid).attr
        THEN <<"#">> \o First(solid).attr["val"] ELSE NoneText

extract_outline(node) ==
    LET line == StepChild(StepChild(FindAllDesc(node, "a:ln"), "a:solidFill"), "a:srgbClr")
    IN  IF Found(line) /\ "val" \in DOMAIN First(line).attr
        THEN <<"#">> \o First(line).attr["val"] ELSE NoneText

\* which of shadow, glow and reflection the node carries
extract_effects(node) ==
    {e \in {"a:outerShdw", "a:glow", "a:reflection"} :
        Found(StepChild(FindAllDesc(node, "a:effectLst"), e))}

\* _parse_w_drawing: <<>> for None, else the one TextBox element
parse_w_drawing(shape, part_name) ==
    LET txbx == StepChild(FindAllDesc(shape, "wps:txbx"), "w:txbxContent")
        text == IF Found(txbx) THEN Join(TruthyTexts(FindAllDesc(First(txbx), "w:t"))) ELSE <<>>
    IN  IF Found(txbx) /\ ~Falsy(Strip(text))
        THEN << [source |-> part_name,
                 text |-> Strip(text),
                 font |-> extract_font(First(txbx)),
                 size |-> extract_size(First(txbx)),
                 size_raw |-> NoneText,
                 color |-> extract_color(First(txbx)),
                 type |-> <<"TextBox">>,
                 geometry |-> extract_warp(shape),
                 fill |-> extract_fill(shape),
                 outline |-> extract_outline(shape),
                 effects |-> extract_effects(shape)] >>
        ELSE <<>>

\* _try_size: float(sz_str) with an optional "pt" suffix, as hundredths
try_size(sz_str) ==
    IF Falsy(sz_str) THEN <<>>
    ELSE LET digits == IF sz_str[Len(sz_str)] = "pt"
                       THEN SubSeq(sz_str, 1, Len(sz_str) - 1) ELSE sz_str
         IN  IF ParseInt(digits) = <<>> THEN <<>> ELSE <<ParseInt(digits)[1] * 100>>

\* _parse_vml_wordart: <<>> for None, else the one VML-WordArt element
parse_vml_wordart(vshape, part_name) ==
    LET textpath == FindAllDesc(vshape, "v:textpath")
    IN  IF Found(textpath)
        THEN << [source |-> part_name,
                 text |-> AttrGetDefault(First(textpath), "string", <<>>),
                 font |-> AttrGet(First(textpath), "font-family"),
                 size |-> try_size(AttrGet(First(textpath), "font-size")),
                 size_raw |-> NoneText,
                 color |-> OrElse(AttrGet(vshape, "strokecolor"), AttrGet(vshape, "fillcolor")),
                 type |-> <<"VML-WordArt">>,
                 geometry |-> IF "type" \in DOMAIN vshape.attr
                              THEN [key |-> <<"type">>, value |-> vshape.attr["type"]]
                              ELSE NoGeometry,
                 fill |-> NoneText,
                 outline |-> NoneText,
                 effects |-> {}] >>
        ELSE <<>>

\* _parse_text_effect: always one element, whose text is None; its size is
\* the attribute string as written (size_raw), not a number
parse_text_effect(te, part_name) ==
    << [source |-> part_name,
        text |-> NoneText,
        font |-> AttrGet(te, "font"),
        size |-> <<>>,
        size_raw |-> AttrGet(te, "size"),
        color |-> OrElse(AttrGet(te, "fillColor"), AttrGet(te, "color")),
        type |-> <<"WordArt-Effect:">> \o Str(AttrGet(te, "w14:val")),
        geometry |-> extract_warp(te),
        fill |-> extract_fill(te),
        outline |-> extract_outline(te),
        effects |-> extract_effects(te)] >>

\* the elements one detector appends: parser applied to every node of ns
RECURSIVE Detect(_, _, _)
Detect(ns, parser(_, _), part_name) ==
    IF ns = <<>> THEN <<>>
    ELSE parser(Head(ns), part_name) \o Detect(Tail(ns), parser, part_name)

\* DrawingParser.parse: the WordArt elements appended for one part, the
\* three detectors in the order of the source
DrawingParser_parse(root, part_name) ==
    Detect(FindAllDesc(root, "w14:textEffect"), parse_text_effect, part_name)
    \o Detect(FindAllDesc(root, "w:drawing"), parse_w_drawing, part_name)
    \o Detect(FindAllDesc(root, "v:shape"), parse_vml_wordart, part_name)

\* ------------------------------------------------------------------------
\* Tables (table_parser.py)
\* ------------------------------------------------------------------------
\* _get_column_count: the cells of the first row
get_column_count(rows) == IF rows = <<>> THEN 0 ELSE Len(FindAllDesc(First(rows), "w:tc"))

\* the text of one paragraph of a cell, followed by a newline
CellParagraphText(para) == Join(TruthyTexts(FindAllDesc(para, "w:t"))) \o <<"\n">>

\* TableParser._parse_cell_properties: the properties of the first w:tcPr
\* below the cell; keys holds the properties that are set. The width is set
\* for a w:tcW of type dxa with a non-empty w:w, to half_point_to_pt of it.
NoCellProps ==
    [keys |-> {}, width_pt |-> <<>>, vAlign |-> NoneText, background_color |-> NoneText,
     vMerge |-> NoneText, hMerge |-> NoneText]

parse_cell_properties(cell) ==
    LET tcPrs == FindAllDesc(cell, "w:tcPr") IN
    IF ~Found(tcPrs) THEN NoCellProps
    ELSE
    LET tcPr == First(tcPrs)
        tcW == FindAllDesc(tcPr, "w:tcW")
        vAlign == FindAllDesc(tcPr, "w:vAlign")
        shd == FindAllDesc(tcPr, "w:shd")
        vMerge == FindAllDesc(tcPr, "w:vMerge")
        hMerge == FindAllDesc(tcPr, "w:hMerge")
        hasWidth == Found(tcW) /\ ~Falsy(AttrGet(First(tcW), "w:w"))
                        /\ AttrGet(First(tcW), "w:type") = <<"dxa">>
        hasShd == Found(shd) /\ ~Falsy(AttrGet(First(shd), "w:fill"))
    IN  [keys |->
            (IF hasWidth THEN {"width_pt"} ELSE {})
            \cup (IF Found(vAlign) THEN {"vAlign"} ELSE {})
            \cup (IF hasShd THEN {"background_color"} ELSE {})
            \cup (IF Found(vMerge) THEN {"vMerge"} ELSE {})
            \cup (IF Found(hMerge) THEN {"hMerge"} ELSE {}),
         width_pt |-> IF hasWidth THEN half_point_to_pt(AttrGet(First(tcW), "w:w")) ELSE <<>>,
         vAlign |-> IF Found(vAlign) THEN AttrGet(First(vAlign), "w:val") ELSE NoneText,
         background_color |-> IF hasShd THEN <<"#">> \o AttrGet(First(shd), "w:fill")
                              ELSE NoneText,
         vMerge |-> IF Found(vMerge)
                    THEN AttrGetDefault(First(vMerge), "w:val", <<"continue">>) ELSE NoneText,
         hMerge |-> IF Found(hMerge)
                    THEN AttrGetDefault(First(hMerge), "w:val", <<"continue">>) ELSE NoneText]

\* _parse_cell_content: position, stripped text, its length and the
\* is-empty flag of one cell
parse_cell_content(cell, row_idx, cell_idx) ==
    LET cell_text == Strip(Join(Map(FindAllDesc(cell, "w:p"), CellParagraphText)))
    IN  [row |-> row_idx + 1,
         col |-> cell_idx + 1,
         text |-> cell_text,
         length |-> Len(cell_text),
         props |-> parse_cell_properties(cell),
         is_empty |-> Falsy(Strip(cell_text))]

\* the cells of one row: row.findall(".//w:tc")
RowData(row, row_idx) ==
    LET cells == FindAllDesc(row, "w:tc")
    IN  [c \in 1..Len(cells) |-> parse_cell_content(cells[c], row_idx, c - 1)]

\* _extract_table_data: the grid, one sequence of cells per row
extract_table_data(rows) == [r \in 1..Len(rows) |-> RowData(rows[r], r - 1)]

\* round(num / den, 2) as hundredths, ties to the even hundredth
Round2(num, den) ==
    LET q == (num * 100) \div den
        r == (num * 100) % den
    IN  IF 2 * r > den \/ (2 * r = den /\ q % 2 = 1) THEN q + 1 ELSE q

RECURSIVE SumLengths(_)
SumLengths(cells) == IF cells = <<>> THEN 0 ELSE Head(cells).length + SumLengths(Tail(cells))

\* variant: the share of the empty cells is reported
analyze_table_content_EmptyShare(table_data) ==
    LET cells == Join(table_data)
        total_cells == Len(cells)
        empty_cells == Len(SelectSeq(cells, LAMBDA c : c.is_empty))
        text_cells == Len(SelectSeq(cells, LAMBDA c : ~c.is_empty))
    IN  [total_cells |-> total_cells,
         empty_cells |-> empty_cells,
         text_cells |-> text_cells,
         avg_length |-> 0,
         fill_ratio |-> IF total_cells > 0 THEN Round2(empty_cells * 100, total_cells) ELSE 0]

\* _analyze_table_content: the counts over the grid; the average length and
\* the fill ratio are in hundredths
analyze_table_content(table_data) ==
    LET cells == Join(table_data)
        total_cells == Len(cells)
        empty_cells == Len(SelectSeq(cells, LAMBDA c : c.is_empty))
        filled == SelectSeq(cells, LAMBDA c : ~c.is_empty)
        text_cells == Len(filled)
    IN  [total_cells |-> total_cells,
         empty_cells |-> empty_cells,
         text_cells |-> text_cells,
         avg_length |-> IF text_cells > 0 THEN Round2(SumLengths(filled), text_cells) ELSE 0,
         fill_ratio |-> IF total_cells > 0 THEN Round2(text_cells * 100, total_cells) ELSE 0]

\* _parse_single_table: <<>> for None (a table without rows)
parse_single_table(tbl, part_name, table_index) ==
    LET rows == FindAllDesc(tbl, "w:tr")
    IN  IF rows = <<>> THEN <<>>
        ELSE << [source |-> part_name,
                 index |-> table_index,
                 row_count |-> Len(rows),
                 col_count |-> get_column_count(rows),
                 data |-> extract_table_data(rows),
                 stats |-> analyze_table_content(extract_table_data(rows))] >>

RECURSIVE ParseTablesFrom(_, _, _)
ParseTablesFrom(tbls, idx, part_name) ==
    IF idx > Len(tbls) THEN <<>>
    ELSE parse_single_table(tbls[idx], part_name, idx) \o ParseTablesFrom(tbls, idx + 1, part_name)

\* TableParser.parse_tables
parse_tables(root, part_name) == ParseTablesFrom(FindAllDesc(root, "w:tbl"), 1, part_name)

\* ------------------------------------------------------------------------
\* Images (image_parser.py)
\* ------------------------------------------------------------------------
\* s.split(sep)
RECURSIVE Split(_, _, _)
Split(s, sep, cur) ==
    IF s = <<>> THEN <<cur>>
    ELSE IF Head(s) = sep THEN <<cur>> \o Split(Tail(s), sep, <<>>)
    ELSE Split(Tail(s), sep, Append(cur, Head(s)))

Count(s, c) == Cardinality({k \in 1..Len(s) : s[k] = c})

\* dict(s.split(":") for s in style.split(";") if ":" in s) raises on an
\* item that holds more than one ":" (the item does not split in two)
StyleDictRaises(style_attr) ==
    LET items == Split(style_attr, ";", <<>>)
    IN  \E k \in 1..Len(items) : Count(items[k], ":") > 1

\* "pic" is not a prefix of NS: drawing.find(".//pic:pic", NS) in
\* _parse_image_properties raises for every drawing that reaches it
PicPrefixKnown == FALSE

\* _parse_drawing_element: <<>> when it returns None or raises (parse_images
\* catches the exception and goes on), else the one DrawingML image
parse_drawing_element(drawing, part_name, img_index) ==
    LET blip == FindAllDesc(drawing, "a:blip")
    IN  IF ~Found(blip) \/ Falsy(AttrGet(First(blip), "r:embed")) THEN <<>>
        ELSE IF ~PicPrefixKnown THEN <<>>
        ELSE << [source |-> part_name,
                 index |-> img_index,
                 kind |-> "DrawingML",
                 rid |-> AttrGet(First(blip), "r:embed")] >>

\* _parse_vml_element: <<>> when it returns None or raises, else the one
\* VML image
parse_vml_element(pict, part_name, img_index) ==
    LET shape == FindAllDesc(pict, "v:shape")
        imagedata == IF Found(shape) THEN FindAllDesc(First(shape), "v:imagedata") ELSE <<>>
    IN  IF ~Found(imagedata) \/ Falsy(AttrGet(First(imagedata), "r:id")) THEN <<>>
        ELSE IF StyleDictRaises(AttrGetDefault(First(shape), "style", <<>>)) THEN <<>>
        ELSE << [source |-> part_name,
                 index |-> img_index,
                 kind |-> "VML",
                 rid |-> AttrGet(First(imagedata), "r:id")] >>

RECURSIVE ParseImagesFrom(_, _, _, _, _)
ParseImagesFrom(ns, k, start, parser(_, _, _), part_name) ==
    IF k > Len(ns) THEN <<>>
    ELSE parser(ns[k], part_name, start + k - 1)
         \o ParseImagesFrom(ns, k + 1, start, parser, part_name)

\* ImageParser.parse_images: the drawings first, then the VML pictures,
\* numbered from the count of images found so far
parse_images(root, part_name) ==
    LET modern == ParseImagesFrom(FindAllDesc(root, "w:drawing"), 1, 1,
                                  parse_drawing_element, part_name)
    IN  modern \o ParseImagesFrom(FindAllDesc(root, "w:pict"), 1, Len(modern) + 1,
                                  parse_vml_element, part_name)

\* ------------------------------------------------------------------------
\* merge_across_sources (utils.py)
\* ------------------------------------------------------------------------
\* para_map is the sequence of its entries in insertion order.
NewEntry(txt, isWordArt, geometry) ==
    [text |-> txt, sources |-> {}, fonts |-> {}, size_pt |-> {}, color |-> {},
     isWordArt |-> isWordArt, geometry |-> geometry, props |-> EmptyProps,
     spacing |-> {}, outline_color |-> {}, background_color |-> {}]

\* the position of the entry of txt in para_map, 0 when txt is not a key
EntryOf(para_map, txt) ==
    IF \E k \in 1..Len(para_map) : para_map[k].text = txt
    THEN CHOOSE k \in 1..Len(para_map) : para_map[k].text = txt
    ELSE 0

\* variant: the colour of a run replaces the colours found so far
AddRunStyle_LastColor(entry, st) ==
    [entry EXCEPT
        !.fonts = @ \cup (IF "fonts" \in st.keys
                          THEN {v \in {st.fonts.ascii, st.fonts.eastAsia, st.fonts.cs,
                                       st.fonts.hAnsi} : ~Falsy(v)}
                          ELSE {}),
        !.size_pt = @ \cup (IF "size_pt" \in st.keys /\ st.size_pt # <<>> /\ st.size_pt # <<0>>
                            THEN {st.size_pt[1]} ELSE {}),
        !.color = IF "color" \in st.keys /\ ~Falsy(st.color) THEN {st.color} ELSE @,
        !.spacing = @ \cup (IF "spacing_cm" \in st.keys THEN {st.spacing_cm[1]} ELSE {}),
        !.background_color = @ \cup (IF "background_color" \in st.keys
                                     THEN {st.background_color} ELSE {})]

\* the facts one run style adds to an entry
AddRunStyle(entry, st) ==
    [entry EXCEPT
        !.fonts = @ \cup (IF "fonts" \in st.keys
                          THEN {v \in {st.fonts.ascii, st.fonts.eastAsia, st.fonts.cs,
                                       st.fonts.hAnsi} : ~Falsy(v)}
                          ELSE {}),
        !.size_pt = @ \cup (IF "size_pt" \in st.keys /\ st.size_pt # <<>> /\ st.size_pt # <<0>>
                            THEN {st.size_pt[1]} ELSE {}),
        !.color = @ \cup (IF "color" \in st.keys /\ ~Falsy(st.color) THEN {st.color} ELSE {}),
        !.spacing = @ \cup (IF "spacing_cm" \in st.keys THEN {st.spacing_cm[1]} ELSE {}),
        !.background_color = @ \cup (IF "background_color" \in st.keys
                                     THEN {st.background_color} ELSE {})]

RECURSIVE AddRunStyles(_, _)
AddRunStyles(entry, runs) ==
    IF runs = <<>> THEN entry
    ELSE AddRunStyles(AddRunStyle(entry, Head(runs).style), Tail(runs))

\* the first loop: one paragraph folded into para_map
MergeParagraph(para_map, para) ==
    LET txt == Strip(para.text)
        map1 == IF EntryOf(para_map, txt) = 0
                THEN Append(para_map, NewEntry(txt, FALSE, NoGeometry)) ELSE para_map
        k == EntryOf(map1, txt)
    IN  IF Falsy(txt) THEN para_map
        ELSE [map1 EXCEPT ![k] =
                [AddRunStyles([map1[k] EXCEPT !.sources = @ \cup {para.source}], para.runs)
                    EXCEPT !.props = para.props]]

RECURSIVE MergeParagraphs(_, _)
MergeParagraphs(para_map, paras) ==
    IF paras = <<>> THEN para_map
    ELSE MergeParagraphs(MergeParagraph(para_map, Head(paras)), Tail(paras))

\* the second loop: one WordArt element folded into para_map.  No element
\* built by DrawingParser has a "style" key, so wa.get("style", {}) is {}
\* and the element adds no font, size or colour.
MergeWordArt(para_map, wa) ==
    LET txt == Strip(wa.text)
        map1 == IF EntryOf(para_map, txt) = 0
                THEN Append(para_map, NewEntry(txt, TRUE, wa.geometry)) ELSE para_map
        k == EntryOf(map1, txt)
    IN  IF Falsy(txt) THEN para_map
        ELSE [map1 EXCEPT ![k] =
                [map1[k] EXCEPT !.sources = @ \cup {wa.source},
                                !.isWordArt = TRUE,
                                !.geometry = wa.geometry]]

RECURSIVE MergeWordArts(_, _)
MergeWordArts(para_map, was) ==
    IF was = <<>> THEN para_map
    ELSE MergeWordArts(MergeWordArt(para_map, Head(was)), Tail(was))

\* wa.get("文字", "").strip() raises AttributeError when the text is None
MergeRaises(summary) == \E k \in 1..Len(summary.WordArt) : summary.WordArt[k].text = NoneText

\* para_map after the two loops, when no element raises
ParaMap(summary) ==
    MergeWordArts(MergeParagraphs(<<>>, summary.paragraphs), summary.WordArt)

\* The iteration order of a set of strings follows the string hash, which
\* the interpreter seeds anew in every process; a set of numbers iterates
\* the same way in every process.  Of the orders a process can show, two:
HashOrders == {"forward", "reverse"}

\* the elements of S one after the other, in one fixed order
RECURSIVE SetToSeq(_)
SetToSeq(S) ==
    IF S = {} THEN <<>>
    ELSE LET x == CHOOSE y \in S : TRUE IN <<x>> \o SetToSeq(S \ {x})

Reverse(s) == [k \in 1..Len(s) |-> s[Len(s) + 1 - k]]

\* list(S) of a set of strings in a process whose hash orders as given
ListOfStrings(S, hash_order) ==
    IF hash_order = "forward" THEN SetToSeq(S) ELSE Reverse(SetToSeq(S))

\* list(S) of a set of numbers
ListOfNumbers(S) == SetToSeq(S)

\* normalize_spacing: a string is divided by 100, any other value is kept;
\* the values that reach it are the numbers of the run styles
normalize_spacing(values) == [k \in 1..Len(values) |-> values[k]]

\* the dict built for one entry in the return statement
ListedEntry(data, hash_order) ==
    [text |-> data.text,
     sources |-> ListOfStrings(data.sources, hash_order),
     fonts |-> ListOfStrings(data.fonts, hash_order),
     size_pt |-> ListOfNumbers(data.size_pt),
     color |-> ListOfStrings(data.color, hash_order),
     isWordArt |-> data.isWordArt,
     geometry |-> data.geometry,
     props |-> data.props,
     spacing |-> normalize_spacing(ListOfNumbers(data.spacing)),
     outline_color |-> ListOfStrings(data.outline_color, hash_order),
     background_color |-> ListOfStrings(data.background_color, hash_order)]

\* the entries returned when no element raises, in a process whose string
\* hash orders as given
merge_across_sources(summary, hash_order) ==
    LET para_map == ParaMap(summary)
    IN  [k \in 1..Len(para_map) |-> ListedEntry(para_map[k], hash_order)]

\* ------------------------------------------------------------------------
\* Documents the analyzer is run on
\* ------------------------------------------------------------------------
Attr1(k, v) == [x \in {k} |-> v]

RPr(kids) == E("w:rPr", kids)
Bold == E("w:b", <<>>)
RStyleX == EA("w:rStyle", Attr1("w:val", <<"X">>), <<>>)
\* <w:r><w:t>text</w:t></w:r>
R(text) == E("w:r", <<WT(text)>>)
\* a run with run properties
RP(props, text) == E("w:r", <<RPr(props), WT(text)>>)
P(kids) == E("w:p", kids)

Warp == EA("a:prstTxWarp", Attr1("prst", <<"textWave1">>), <<>>)
\* <wps:txbx><w:txbxContent> with one paragraph of the given runs
TxBx(runs) == E("wps:txbx", <<E("w:txbxContent", <<P(runs)>>)>>)
\* <w:drawing> around a DrawingML shape
Drawing(kids) == E("w:r", <<E("w:drawing", <<E("a:graphic", <<E("a:graphicData", kids)>>)>>)>>)
Pict(kids) == E("w:r", <<E("w:pict", kids)>>)
TextPath == EA("v:textpath", Attr1("string", <<"b">>), <<>>)
ImageData == EA("v:imagedata", Attr1("r:id", <<"rId1">>), <<>>)
Tab(pos) == E("w:pPr", <<E("w:tabs", <<EA("w:tab", Attr1("w:pos", pos), <<>>)>>)>>)
Cell(text) == E("w:tc", <<P(<<R(text)>>)>>)

\* two plain runs and two bold ones
PPlain == P(<<R(<<"a">>), R(<<"b">>), RP(<<Bold>>, <<"a">>), RP(<<Bold>>, <<"b">>)>>)
\* text with a trailing space
PTrail == P(<<R(<<"a", " ">>)>>)
\* runs without text: no w:t at all, and an empty <w:t/>
PEmpties == P(<<RP(<<Bold>>, <<"a">>), E("w:r", <<RPr(<<Bold>>)>>),
                RP(<<Bold>>, NoneText), RP(<<Bold>>, <<"b">>)>>)
\* only empty runs
POnlyEmpty == P(<<E("w:r", <<>>), R(NoneText)>>)
\* runs that differ in their named style only
PNamed == P(<<RP(<<RStyleX, Bold>>, <<"a">>), RP(<<Bold>>, <<"b">>)>>)
\* text inside a hyperlink: below the paragraph but not in a direct run
PHyperlink == P(<<R(<<"a">>), E("w:hyperlink", <<R(<<"b">>)>>)>>)
\* modern text effect in the run properties
PTextEffect == P(<<RP(<<EA("w14:textEffect", Attr1("w14:val", <<"glow">>), <<>>)>>, <<"a">>)>>)
\* warp in a DrawingML text body (a:txBody/a:bodyPr)
PWarpTxBody == P(<<Drawing(<<E("a:txBody", <<E("a:bodyPr", <<Warp>>)>>)>>)>>)
\* warp in a word-processing shape (wps:wsp/wps:bodyPr) with a text box
PWarpWsp == P(<<Drawing(<<E("wps:wsp", <<TxBx(<<R(<<"b">>)>>),
                                          E("wps:bodyPr", <<Warp>>)>>)>>)>>)
\* text box without warp
PTextBox == P(<<R(<<"a">>), Drawing(<<E("wps:wsp", <<TxBx(<<R(<<"b">>)>>)>>)>>)>>)
\* legacy WordArt: v:shape with a text path
PVml == P(<<Pict(<<EA("v:shape", Attr1("fillcolor", <<"red">>), <<TextPath>>)>>)>>)
\* a text path below a VML element that is not a v:shape
PVmlRect == P(<<Pict(<<E("v:rect", <<TextPath>>)>>)>>)
\* a tab stop whose position is not a number
PBadTab == P(<<Tab(<<"x">>), R(<<"a">>)>>)
PGoodTab == P(<<Tab(<<"2", "0">>), R(<<"a">>)>>)
\* a legacy picture
PVmlImage == P(<<Pict(<<E("v:shape", <<ImageData>>)>>)>>)
\* a modern picture
PDrawingImage == P(<<Drawing(<<EA("a:blip", Attr1("r:embed", <<"rId2">>), <<>>)>>)>>)
Tbl == E("w:tbl", <<E("w:tr", <<Cell(<<"a">>), Cell(NoneText)>>)>>)

Color(val) == EA("w:color", Attr1("w:val", val), <<>>)
\* the same text in red and in blue
PRed == P(<<RP(<<Color(<<"FF0000">>)>>, <<"t">>)>>)
PBlue == P(<<RP(<<Color(<<"0000FF">>)>>, <<"t">>)>>)
\* a legacy picture whose style attribute has an item with two colons
PVmlBadImage ==
    P(<<Pict(<<EA("v:shape", Attr1("style", <<"a", ":", "b", ":", "c">>), <<ImageData>>)>>)>>)
Row(cells) == E("w:tr", cells)
\* first row of 3 cells, second row of 5
Tbl35 ==
    E("w:tbl", <<Row(<<Cell(<<"a">>), Cell(<<"a">>), Cell(<<"a">>)>>),
                 Row(<<Cell(<<"b">>), Cell(<<"b">>), Cell(<<"b">>), Cell(<<"b">>),
                       Cell(<<"b">>)>>)>>)
\* 10 cells of which 6 have text
Tbl10 ==
    E("w:tbl", <<Row(<<Cell(<<"a">>), Cell(<<"a">>), Cell(<<"a">>), Cell(NoneText),
                       Cell(<<" ">>)>>),
                 Row(<<Cell(<<"b">>), Cell(<<"b">>), Cell(<<"b">>), Cell(NoneText),
                       Cell(NoneText)>>)>>)
\* a row without cells
TblNoCells == E("w:tbl", <<Row(<<>>)>>)
\* a table of one cell that holds a table of two cells
TblNested ==
    E("w:tbl", <<Row(<<E("w:tc", <<E("w:tbl", <<Row(<<Cell(<<"a">>), Cell(NoneText)>>)>>),
                                   P(<<>>)>>)>>)>>)

\* a text box whose run carries a modern text effect
PTextBoxEffect ==
    P(<<Drawing(<<E("wps:wsp", <<TxBx(<<RP(<<EA("w14:textEffect", Attr1("w14:val", <<"glow">>),
                                                  <<>>)>>, <<"b">>)>>)>>)>>)>>)

\* a cell with a width of the given type
TcW(w, type) ==
    EA("w:tcW", [x \in {"w:w", "w:type"} |-> IF x = "w:w" THEN w ELSE type], <<>>)
CellW(w, type, text) == E("w:tc", <<E("w:tcPr", <<TcW(w, type)>>), P(<<R(text)>>)>>)
\* a table whose cells are 2400 twips and 50 percent wide
TblWidth ==
    E("w:tbl", <<Row(<<CellW(<<"2", "4", "0", "0">>, <<"dxa">>, <<"a">>),
                       CellW(<<"5", "0">>, <<"pct">>, <<"b">>)>>)>>)

Doc(blocks) == E("w:document", <<E("w:body", blocks)>>)

\* the XML parts: one block each, and a few of two blocks
Docs ==
    {Doc(<<b>>) : b \in {PPlain, PTrail, PEmpties, POnlyEmpty, PNamed, PHyperlink,
                         PTextEffect, PWarpTxBody, PWarpWsp, PTextBox, PVml, PVmlRect,
                         PBadTab, PGoodTab, PVmlImage, PDrawingImage, Tbl}}
    \cup {Doc(<<Tbl, Tbl>>), Doc(<<PVmlImage, PVmlImage>>), Doc(<<PPlain, PVml>>)}
    \cup {Doc(<<PRed, PBlue>>), Doc(<<PVmlBadImage>>),
          Doc(<<PVmlImage, PVmlBadImage, PVmlImage>>),
          Doc(<<Tbl35, Tbl10, TblNoCells>>), Doc(<<TblNested>>)}
    \cup {Doc(<<PTextBoxEffect, TblWidth, PVmlImage>>)}

\* entry names, as path symbols
DocumentName == <<"word", "/", "document", ".xml">>
HeaderName == <<"word", "/", "header1", ".xml">>
RelsName == <<"word", "/", "_rels", "/", "document", ".xml">>
MediaName == <<"word", "/", "media", "/", "image1", ".png">>
OutsideName == <<"docProps", "/", "app", ".xml">>

\* an archive entry: its name and what ET.fromstring makes of its bytes
\* (well_formed is FALSE when the bytes are not XML; root is then unused)
Entry(name, well_formed, root) == [name |-> name, well_formed |-> well_formed, root |-> root]

Entries ==
    {Entry(n, TRUE, d) : n \in {DocumentName, HeaderName}, d \in Docs}
    \cup {Entry(n, FALSE, Doc(<<>>)) : n \in {DocumentName, HeaderName}}
    \cup {Entry(n, TRUE, Doc(<<PPlain, Tbl>>)) : n \in {RelsName, MediaName, OutsideName}}

\* the entry lists of at most n entries, each name used once
RECURSIVE EntryLists(_)
EntryLists(n) ==
    IF n = 0 THEN {<<>>}
    ELSE LET shorter == EntryLists(n - 1)
             longest == {l \in shorter : Len(l) = n - 1}
         IN  shorter \cup
             UNION {{Append(l, e) : e \in {x \in Entries :
                                            \A k \in 1..Len(l) : l[k].name # x.name}} :
                    l \in longest}

\* the files summarize is called on: kind is "missing" (no such file),
\* "notzip" (not a zip archive), "corrupt" (testzip names a bad entry),
\* "encrypted" (a zip archive whose entries testzip cannot read without a
\* password: it raises RuntimeError) or "valid"
Archives ==
    {[kind |-> "valid", entries |-> l] : l \in EntryLists(MaxParts)}
    \cup {[kind |-> k, entries |-> <<Entry(DocumentName, TRUE, Doc(<<PPlain>>))>>] :
            k \in {"missing", "notzip", "corrupt", "encrypted"}}

\* ------------------------------------------------------------------------
\* DocParser.summarize as a state machine
\* ------------------------------------------------------------------------
VARIABLES
    archive,    \* the file summarize was called on
    pc,         \* where summarize stands
    pos,        \* index in z.namelist() of the entry of the current iteration
    summary,    \* the summary dict under construction
    zip_open,   \* the archive handle is open
    result,     \* "running", "returned", or the exception raised to the caller
    trace,      \* the calls made so far: <<callee, entry index>>
    previous,   \* <<the summary an earlier invocation on the file returned>>
    runs_in,    \* argument of a call of _merge_runs_by_style on its own
    runs_out,   \* its result
    runs_again, \* the result of applying it to runs_out
    phase,      \* progress of that call
    unit_pc,    \* which conversion is called on its own, and whether it is over
    unit_in,    \* its argument
    unit_out,   \* its result
    store,      \* the rows of the workbook of StandardAnswerManager
    lock,       \* the process that holds the file lock, or "free"
    calls       \* the call of check_and_insert of every process

vars == <<archive, pc, pos, summary, zip_open, result, trace, previous,
          runs_in, runs_out, runs_again, phase, unit_pc, unit_in, unit_out,
          store, lock, calls>>

mergeVars == <<runs_in, runs_out, runs_again, phase>>
docVars == <<archive, pc, pos, summary, zip_open, result, trace, previous>>
unitVars == <<unit_pc, unit_in, unit_out>>
storeVars == <<store, lock, calls>>

\* the summary dict as created at the top of summarize; keys holds which of
\* the optional keys (tables, images) have been set
NewSummary ==
    [paragraphs |-> <<>>, WordArt |-> <<>>, hints |-> <<>>, merged |-> <<>>,
     tables |-> <<>>, images |-> <<>>, keys |-> {}]

\* the test on the entry name in the loop of summarize
StartsWithWord(name) == Len(name) >= 2 /\ name[1] = "word" /\ name[2] = "/"
EndsWithXml(name) == name # <<>> /\ name[Len(name)] = ".xml"
ContainsRels(name) ==
    \E k \in 1..(Len(name) - 2) : name[k] = "/" /\ name[k + 1] = "_rels" /\ name[k + 2] = "/"
\* variant: the test on the entry name does not look for /_rels/
Eligible_NoRelsTest(name) == StartsWithWord(name) /\ EndsWithXml(name)

Eligible(name) == StartsWithWord(name) /\ EndsWithXml(name) /\ ~ContainsRels(name)

\* z.read(name): the entry of that name
ReadEntry(z, name) == z.entries[CHOOSE k \in 1..Len(z.entries) : z.entries[k].name = name]

\* utils.get_xml: whether ET.fromstring(z.read(name)) gives a root; an
\* exception gives None
get_xml(z, name) == ReadEntry(z, name).well_formed

\* the name and the root of the part of the current iteration
CurrentPart ==
    [name |-> archive.entries[pos].name,
     root |-> ReadEntry(archive, archive.entries[pos].name).root]

DocInit ==
    /\ archive \in Archives
    /\ pc = "start"
    /\ pos = 0
    /\ summary = NewSummary
    /\ zip_open = FALSE
    /\ result = "running"
    /\ trace = <<>>
    /\ previous = <<>>

MergeIdle ==
    /\ runs_in = <<>>
    /\ runs_out = <<>>
    /\ runs_again = <<>>
    /\ phase = "idle"

UnitsIdle ==
    /\ unit_pc = "idle"
    /\ unit_in = <<>>
    /\ unit_out = <<>>

StoreIdle ==
    /\ store = <<>>
    /\ lock = "free"
    /\ calls = <<>>

Init == DocInit /\ MergeIdle /\ UnitsIdle /\ StoreIdle

\* os.path.exists(file_path)
CheckExists ==
    /\ pc = "start"
    /\ IF archive.kind = "missing"
       THEN pc' = "done" /\ result' = "FileNotFoundError"
       ELSE pc' = "open" /\ result' = result
    /\ UNCHANGED <<archive, pos, summary, zip_open, trace, previous, mergeVars, unitVars, storeVars>>

\* variant: the result of z.testzip() is not looked at
OpenArchive_NoTestzip ==
    /\ pc = "open"
    /\ IF archive.kind = "notzip"
       THEN pc' = "done" /\ result' = "ValueError" /\ pos' = pos
       ELSE IF archive.kind = "encrypted"
       THEN pc' = "done" /\ result' = "Exception" /\ pos' = pos
       ELSE pc' = "loop" /\ result' = result /\ pos' = 1
    /\ zip_open' = (archive.kind \in {"valid", "corrupt"})
    /\ UNCHANGED <<archive, summary, trace, previous, mergeVars, unitVars, storeVars>>

\* zipfile.ZipFile(file_path) and z.testzip(): BadZipFile from either one
\* is turned into ValueError, any other exception of testzip into
\* Exception; leaving the with block closes the handle
OpenArchive ==
    /\ pc = "open"
    /\ IF archive.kind \in {"notzip", "corrupt"}
       THEN pc' = "done" /\ result' = "ValueError" /\ pos' = pos
       ELSE IF archive.kind = "encrypted"
       THEN pc' = "done" /\ result' = "Exception" /\ pos' = pos
       ELSE pc' = "loop" /\ result' = result /\ pos' = 1
    /\ zip_open' = (archive.kind = "valid")
    /\ UNCHANGED <<archive, summary, trace, previous, mergeVars, unitVars, storeVars>>

\* an entry whose name fails the test: continue
SkipEntry ==
    /\ pc = "loop"
    /\ pos <= Len(archive.entries)
    /\ ~Eligible(archive.entries[pos].name)
    /\ pos' = pos + 1
    /\ UNCHANGED <<archive, pc, summary, zip_open, result, trace, previous, mergeVars, unitVars, storeVars>>

\* get_xml returns None: continue, nothing is recorded
SkipUnparsable ==
    /\ pc = "loop"
    /\ pos <= Len(archive.entries)
    /\ Eligible(archive.entries[pos].name)
    /\ ~get_xml(archive, archive.entries[pos].name)
    /\ pos' = pos + 1
    /\ trace' = Append(trace, <<"get_xml", pos>>)
    /\ UNCHANGED <<archive, pc, summary, zip_open, result, previous, mergeVars, unitVars, storeVars>>

\* get_xml returns the root of the part
ReadPart ==
    /\ pc = "loop"
    /\ pos <= Len(archive.entries)
    /\ Eligible(archive.entries[pos].name)
    /\ get_xml(archive, archive.entries[pos].name)
    /\ pc' = "paragraphs"
    /\ trace' = Append(trace, <<"get_xml", pos>>)
    /\ UNCHANGED <<archive, pos, summary, zip_open, result, previous, mergeVars, unitVars, storeVars>>

\* variant: the archive is opened without a with block, an exception
\* leaves the handle open
ParseParagraphs_NoWith ==
    /\ pc = "paragraphs"
    /\ LET part == CurrentPart
           parsed == parse_paragraphs(part.root, part.name)
       IN  /\ summary' = [summary EXCEPT !.paragraphs = @ \o parsed.paragraphs]
           /\ IF parsed.raised
              THEN pc' = "done" /\ result' = "Exception"
              ELSE pc' = "drawing" /\ result' = result
    /\ zip_open' = zip_open
    /\ trace' = Append(trace, <<"parse_paragraphs", pos>>)
    /\ UNCHANGED <<archive, pos, previous, mergeVars, unitVars, storeVars>>

\* parse_paragraphs(root, name, summary); an exception leaves the with
\* block (the handle is closed) and reaches the caller as Exception
ParseParagraphs ==
    /\ pc = "paragraphs"
    /\ LET part == CurrentPart
           parsed == parse_paragraphs(part.root, part.name)
       IN  /\ summary' = [summary EXCEPT !.paragraphs = @ \o parsed.paragraphs]
           /\ IF parsed.raised
              THEN pc' = "done" /\ result' = "Exception" /\ zip_open' = FALSE
              ELSE pc' = "drawing" /\ result' = result /\ zip_open' = zip_open
    /\ trace' = Append(trace, <<"parse_paragraphs", pos>>)
    /\ UNCHANGED <<archive, pos, previous, mergeVars, unitVars, storeVars>>

\* DrawingParser.parse(root, name, summary)
ParseDrawing ==
    /\ pc = "drawing"
    /\ LET part == CurrentPart
       IN  summary' = [summary EXCEPT !.WordArt = @ \o DrawingParser_parse(part.root, part.name)]
    /\ pc' = "tables"
    /\ trace' = Append(trace, <<"DrawingParser.parse", pos>>)
    /\ UNCHANGED <<archive, pos, zip_open, result, previous, mergeVars, unitVars, storeVars>>

\* parse_all_tables_in_document(root, name, summary): a non-empty table
\* list is assigned to the tables key and a notice with its length is
\* appended
parse_all_tables_in_document(root, part_name, s) ==
    LET tables == parse_tables(root, part_name)
    IN  IF tables # <<>>
        THEN [s EXCEPT !.tables = tables,
                       !.keys = @ \cup {"tables"},
                       !.hints = Append(@, <<"tables", Len(tables)>>)]
        ELSE s

\* parse_all_images_in_document(root, name, summary): the same for the
\* images key
parse_all_images_in_document(root, part_name, s) ==
    LET images == parse_images(root, part_name)
    IN  IF images # <<>>
        THEN [s EXCEPT !.images = images,
                       !.keys = @ \cup {"images"},
                       !.hints = Append(@, <<"images", Len(images)>>)]
        ELSE s

\* the call of parse_all_tables_in_document in the loop
ParseTables ==
    /\ pc = "tables"
    /\ LET part == CurrentPart
       IN  summary' = parse_all_tables_in_document(part.root, part.name, summary)
    /\ pc' = "images"
    /\ trace' = Append(trace, <<"parse_all_tables_in_document", pos>>)
    /\ UNCHANGED <<archive, pos, zip_open, result, previous, mergeVars, unitVars, storeVars>>

\* the call of parse_all_images_in_document in the loop
ParseImages ==
    /\ pc = "images"
    /\ LET part == CurrentPart
       IN  summary' = parse_all_images_in_document(part.root, part.name, summary)
    /\ pc' = "loop"
    /\ pos' = pos + 1
    /\ trace' = Append(trace, <<"parse_all_images_in_document", pos>>)
    /\ UNCHANGED <<archive, zip_open, result, previous, mergeVars, unitVars, storeVars>>

\* the loop is over: the with block ends and closes the handle
CloseArchive ==
    /\ pc = "loop"
    /\ pos > Len(archive.entries)
    /\ zip_open' = FALSE
    /\ pc' = "merge_runs"
    /\ UNCHANGED <<archive, pos, summary, result, trace, previous, mergeVars, unitVars, storeVars>>

\* variant: only the first paragraph is visited
merge_similar_runs_FirstOnly(paragraphs) ==
    [k \in 1..Len(paragraphs) |->
        IF k > 1 \/ paragraphs[k].runs = <<>> THEN paragraphs[k]
        ELSE [paragraphs[k] EXCEPT !.runs = merge_runs_by_style(@)]]

\* DocParser._merge_similar_runs: every paragraph with runs gets the runs
\* merged by style
merge_similar_runs(paragraphs) ==
    [k \in 1..Len(paragraphs) |->
        IF paragraphs[k].runs = <<>> THEN paragraphs[k]
        ELSE [paragraphs[k] EXCEPT !.runs = merge_runs_by_style(@)]]

MergeSimilarRuns ==
    /\ pc = "merge_runs"
    /\ summary' = [summary EXCEPT !.paragraphs = merge_similar_runs(@)]
    /\ pc' = "merge_sources"
    /\ trace' = Append(trace, <<"_merge_similar_runs", 0>>)
    /\ UNCHANGED <<archive, pos, zip_open, result, previous, mergeVars, unitVars, storeVars>>

\* variant: the merge empties the run lists it has read
MergeAcrossSources_ConsumesRuns ==
    /\ pc = "merge_sources"
    /\ IF MergeRaises(summary)
       THEN summary' = summary /\ result' = "Exception"
       ELSE /\ \E hash_order \in HashOrders :
                summary' = [summary EXCEPT
                    !.merged = merge_across_sources(summary, hash_order),
                    !.paragraphs = [k \in 1..Len(@) |-> [@[k] EXCEPT !.runs = <<>>]],
                    !.keys = @ \cup {"merged"}]
            /\ result' = "returned"
    /\ pc' = "done"
    /\ trace' = Append(trace, <<"merge_across_sources", 0>>)
    /\ UNCHANGED <<archive, pos, zip_open, previous, mergeVars, unitVars, storeVars>>

\* summary["整合文字樣式"] = merge_across_sources(summary); return summary.
\* An exception of merge_across_sources reaches the caller as Exception.
\* The lists made from sets of strings come in the order of the string hash
\* of the process.
MergeAcrossSources ==
    /\ pc = "merge_sources"
    /\ IF MergeRaises(summary)
       THEN summary' = summary /\ result' = "Exception"
       ELSE /\ \E hash_order \in HashOrders :
                summary' = [summary EXCEPT
                    !.merged = merge_across_sources(summary, hash_order),
                    !.keys = @ \cup {"merged"}]
            /\ result' = "returned"
    /\ pc' = "done"
    /\ trace' = Append(trace, <<"merge_across_sources", 0>>)
    /\ UNCHANGED <<archive, pos, zip_open, previous, mergeVars, unitVars, storeVars>>

\* summarize is called once more on the same file, in a process of its own
\* (another worker, or the server after a restart)
InvokeAgain ==
    /\ pc = "done"
    /\ result = "returned"
    /\ previous = <<>>
    /\ previous' = <<summary>>
    /\ pc' = "start"
    /\ pos' = 0
    /\ summary' = NewSummary
    /\ zip_open' = FALSE
    /\ result' = "running"
    /\ trace' = <<>>
    /\ UNCHANGED <<archive, mergeVars, unitVars, storeVars>>

DocNext ==
    \/ CheckExists
    \/ OpenArchive
    \/ SkipEntry
    \/ SkipUnparsable
    \/ ReadPart
    \/ ParseParagraphs
    \/ ParseDrawing
    \/ ParseTables
    \/ ParseImages
    \/ CloseArchive
    \/ MergeSimilarRuns
    \/ MergeAcrossSources
    \/ InvokeAgain

Next == DocNext

Spec == Init /\ [][Next]_vars

\* ------------------------------------------------------------------------
\* DocParser._merge_runs_by_style called on its own
\* ------------------------------------------------------------------------
\* the styles parse_run_props gives for: no properties, bold, a named
\* style, and both
RunStyles ==
    {parse_run_props(R(<<>>)), parse_run_props(RP(<<Bold>>, <<>>)),
     parse_run_props(RP(<<RStyleX>>, <<>>)), parse_run_props(RP(<<RStyleX, Bold>>, <<>>))}

RunTexts == {<<>>, <<"a">>, <<"b">>}

Runs == {[text |-> t, style |-> st] : t \in RunTexts, st \in RunStyles}

\* the run sequences of at most n runs
RECURSIVE RunSeqs(_)
RunSeqs(n) ==
    IF n = 0 THEN {<<>>}
    ELSE RunSeqs(n - 1) \cup {Append(l, r) : l \in {x \in RunSeqs(n - 1) : Len(x) = n - 1},
                                             r \in Runs}

DocIdle ==
    /\ archive = [kind |-> "missing", entries |-> <<>>]
    /\ pc = "idle"
    /\ pos = 0
    /\ summary = NewSummary
    /\ zip_open = FALSE
    /\ result = "running"
    /\ trace = <<>>
    /\ previous = <<>>

MergeInit ==
    /\ DocIdle
    /\ UnitsIdle
    /\ StoreIdle
    /\ runs_in \in RunSeqs(MaxRuns)
    /\ runs_out = <<>>
    /\ runs_again = <<>>
    /\ phase = "input"

\* merged = DocParser._merge_runs_by_style(runs)
ApplyMerge ==
    /\ phase = "input"
    /\ runs_out' = merge_runs_by_style(runs_in)
    /\ phase' = "merged"
    /\ UNCHANGED <<runs_in, runs_again, docVars, unitVars, storeVars>>

\* DocParser._merge_runs_by_style(merged)
ApplyMergeAgain ==
    /\ phase = "merged"
    /\ runs_again' = merge_runs_by_style(runs_out)
    /\ phase' = "remerged"
    /\ UNCHANGED <<runs_in, runs_out, docVars, unitVars, storeVars>>

MergeNext == ApplyMerge \/ ApplyMergeAgain

SpecMerge == MergeInit /\ [][MergeNext]_vars

\* ------------------------------------------------------------------------
\* The unit conversions called on their own
\* ------------------------------------------------------------------------
\* the EMU values: around every multiple of half a thousandth of a
\* centimetre up to MaxEmuStep of them, and two whole lengths
EmuValues ==
    {180 * k + d : k \in 0..MaxEmuStep, d \in {0, 1, 179}} \cup {360000, 1260000}

\* the arguments of emu_to_cm: integers as attribute strings, with a sign,
\* with blanks around them, and strings that are no integer
EmuInputs ==
    {NatStr(n) : n \in EmuValues}
    \cup {<<"-">> \o NatStr(n) : n \in {180 * k : k \in 1..3} \cup {181, 360000}}
    \cup {<<" ", "3", "6", "0", " ">>, <<"1", ".", "5">>, <<"x">>, <<>>, NoneText}

\* the cells handed to _parse_cell_properties: a width of every number of
\* twips up to MaxTwips and of some more, of type dxa and of another type,
\* a width that is no number, no properties, and the other properties
CellInputs ==
    {CellW(NatStr(w), t, <<"a">>) : w \in 0..MaxTwips \cup {240, 2400},
                                    t \in {<<"dxa">>, <<"pct">>}}
    \cup {CellW(<<"x">>, <<"dxa">>, <<"a">>), CellW(<<>>, <<"dxa">>, <<"a">>), Cell(<<"a">>),
          E("w:tc", <<E("w:tcPr", <<EA("w:vAlign", Attr1("w:val", <<"center">>), <<>>),
                                    EA("w:shd", Attr1("w:fill", <<"FF0000">>), <<>>),
                                    E("w:vMerge", <<>>),
                                    EA("w:hMerge", Attr1("w:val", <<"restart">>), <<>>)>>),
                      P(<<R(<<"a">>)>>)>>)}

UnitsInit ==
    /\ DocIdle
    /\ MergeIdle
    /\ StoreIdle
    /\ \/ unit_pc = "emu" /\ unit_in \in EmuInputs
       \/ unit_pc = "cell" /\ unit_in \in CellInputs
    /\ unit_out = <<>>

\* out = emu_to_cm(v)
ApplyEmuToCm ==
    /\ unit_pc = "emu"
    /\ \E float_above \in BOOLEAN : unit_out' = emu_to_cm(unit_in, float_above)
    /\ unit_pc' = "emu_done"
    /\ UNCHANGED <<unit_in, docVars, mergeVars, storeVars>>

\* props = TableParser._parse_cell_properties(cell)
ApplyCellProperties ==
    /\ unit_pc = "cell"
    /\ unit_out' = parse_cell_properties(unit_in)
    /\ unit_pc' = "cell_done"
    /\ UNCHANGED <<unit_in, docVars, mergeVars, storeVars>>

UnitsNext == ApplyEmuToCm \/ ApplyCellProperties

SpecUnits == UnitsInit /\ [][UnitsNext]_vars

\* ------------------------------------------------------------------------
\* StandardAnswerManager (standard_manager.py)
\* ------------------------------------------------------------------------
\* A JSON text is a sequence of symbols: a brace, a colon, a comma, a blank,
\* a key or a scalar is one symbol each.
\* the keys, in the order sort_keys puts them
JsonKeys == <<"\"a\"", "\"b\"">>
JsonScalars == {"1", "2", "null"}

\* the text without the blanks json.loads skips between tokens
NoBlanks(t) == SelectSeq(t, LAMBDA c : ~IsSpace(c))

\* the tokens between the braces when the text is an object, k : v pairs
\* with commas between them
IsJsonObject(t) ==
    LET tk == NoBlanks(t)
        n == Len(tk) - 2
    IN  /\ Len(tk) >= 2 /\ tk[1] = "{" /\ tk[Len(tk)] = "}"
        /\ n = 0 \/ n % 4 = 3
        /\ \A i \in 1..n :
              CASE i % 4 = 1 -> tk[i + 1] \in Range(JsonKeys)
                [] i % 4 = 2 -> tk[i + 1] = ":"
                [] i % 4 = 3 -> tk[i + 1] \in JsonScalars
                [] OTHER -> tk[i + 1] = ","

\* json.loads of an object: the value of every key it holds, the last one
\* when a key comes twice
LoadsObject(t) ==
    LET tk == NoBlanks(t)
        places(k) == {i \in 2..(Len(tk) - 1) : i % 4 = 2 /\ tk[i] = k}
        last(k) == CHOOSE i \in places(k) : \A j \in places(k) : j <= i
    IN  [k \in {x \in Range(JsonKeys) : places(x) # {}} |-> tk[last(k) + 2]]

\* json.dumps(obj, sort_keys=True) of an object: '{"a": 1, "b": 2}'
DumpsObject(obj) ==
    LET keys == SelectSeq(JsonKeys, LAMBDA k : k \in DOMAIN obj)
    IN  <<"{">> \o JoinWith([i \in 1..Len(keys) |-> <<keys[i], ":", " ", obj[keys[i]]>>],
                            <<",", " ">>) \o <<"}">>

\* _normalize_json: the dumps of the loads of a JSON text, the stripped
\* text when json.loads raises
normalize_json(json_data) ==
    IF Len(NoBlanks(json_data)) = 1 /\ NoBlanks(json_data)[1] \in JsonScalars
    THEN NoBlanks(json_data)
    ELSE IF IsJsonObject(json_data) THEN DumpsObject(LoadsObject(json_data))
    ELSE Strip(json_data)

\* A row of the workbook is [json, filename]; the columns that play no part
\* in the duplicate test other than these are left out.
\* a missing value of a DataFrame
NaN == <<"<NaN>">>

\* the cell texts pd.read_excel takes for missing values (keep_default_na),
\* those of one symbol; an empty cell is missing as well
NaStrings == {<<"null">>, <<"NULL">>, <<"nan">>, <<"NaN">>, <<"None">>, <<"NA">>, <<>>}

\* pd.read_excel(self.excel_path): the rows of the sheet as a DataFrame
read_excel(rows) ==
    [k \in 1..Len(rows) |-> [rows[k] EXCEPT !.json = IF @ \in NaStrings THEN NaN ELSE @]]

\* df["JSON"].astype(str).tolist()
JsonColumnAsStr(df) == [k \in 1..Len(df) |-> IF df[k].json = NaN THEN <<"nan">> ELSE df[k].json]

\* df.to_excel(self.excel_path, index=False): a missing value is written
\* as an empty cell
to_excel(df) == [k \in 1..Len(df) |-> [df[k] EXCEPT !.json = IF @ = NaN THEN <<>> ELSE @]]

\* the processes that call check_and_insert on the one workbook
Procs == {"p1", "p2"}

\* the JSON texts handed in: an object, the same object with its keys the
\* other way round and blanks, another object, the JSON null, a text that
\* is no JSON with blanks around it
JsonInputs ==
    {<<"{", "\"a\"", ":", "1", ",", "\"b\"", ":", "2", "}">>,
     <<"{", " ", "\"b\"", ":", "2", ",", "\"a\"", ":", "1", " ", "}">>,
     <<"{", "\"a\"", ":", "2", "}">>,
     <<"null">>,
     <<" ", "x", " ">>}

NewCall(json_data) ==
    [pc |-> "start", json |-> json_data, norm |-> <<>>, df |-> <<>>, ret |-> "none"]

\* the workbook as __init__ creates it (no rows), the lock free, every
\* process about to call check_and_insert
StoreInit ==
    /\ DocIdle
    /\ MergeIdle
    /\ UnitsIdle
    /\ store = <<>>
    /\ lock = "free"
    /\ calls \in [Procs -> {NewCall(j) : j \in JsonInputs}]

\* norm_json = self._normalize_json(json_data), before the lock is taken
Normalize(p) ==
    /\ calls[p].pc = "start"
    /\ calls' = [calls EXCEPT ![p].norm = normalize_json(calls[p].json), ![p].pc = "wait"]
    /\ UNCHANGED <<store, lock, docVars, mergeVars, unitVars>>

\* with FileLock(self.lock_path): the call waits until the lock is free
Acquire(p) ==
    /\ calls[p].pc = "wait"
    /\ lock = "free"
    /\ lock' = p
    /\ calls' = [calls EXCEPT ![p].pc = "read"]
    /\ UNCHANGED <<store, docVars, mergeVars, unitVars>>

\* df = pd.read_excel(self.excel_path)
ReadStore(p) ==
    /\ calls[p].pc = "read"
    /\ calls' = [calls EXCEPT ![p].df = read_excel(store), ![p].pc = "check"]
    /\ UNCHANGED <<store, lock, docVars, mergeVars, unitVars>>

\* the duplicate test: return False when the normalized JSON is in the
\* JSON column; else the new row is appended, the workbook is written and
\* the call returns True
CheckAndWrite(p) ==
    /\ calls[p].pc = "check"
    /\ LET df == calls[p].df
       IN  IF df # <<>> /\ calls[p].norm \in Range(JsonColumnAsStr(df))
           THEN /\ calls' = [calls EXCEPT ![p].ret = "False", ![p].pc = "release"]
                /\ store' = store
           ELSE /\ calls' = [calls EXCEPT ![p].ret = "True", ![p].pc = "release"]
                /\ store' = to_excel(Append(df, [json |-> calls[p].norm, filename |-> p]))
    /\ UNCHANGED <<lock, docVars, mergeVars, unitVars>>

\* the with block ends: the lock is released
Release(p) ==
    /\ calls[p].pc = "release"
    /\ lock' = "free"
    /\ calls' = [calls EXCEPT ![p].pc = "done"]
    /\ UNCHANGED <<store, docVars, mergeVars, unitVars>>

StoreNext ==
    \E p \in Procs :
        \/ Normalize(p)
        \/ Acquire(p)
        \/ ReadStore(p)
        \/ CheckAndWrite(p)
        \/ Release(p)

SpecStore == StoreInit /\ [][StoreNext]_vars

\* ------------------------------------------------------------------------
\* Properties
\* ------------------------------------------------------------------------

\* the entries that have been handed to the given callee
Called(callee) == {k \in 1..Len(archive.entries) : <<callee, k>> \in Range(trace)}

\* the parts summarize has to parse: eligible name, well-formed XML
ParsableParts ==
    {k \in 1..Len(archive.entries) :
        Eligible(archive.entries[k].name) /\ get_xml(archive, archive.entries[k].name)}

PartName(k) == archive.entries[k].name
PartRoot(k) == ReadEntry(archive, archive.entries[k].name).root

Parsers ==
    {"parse_paragraphs", "DrawingParser.parse", "parse_all_tables_in_document",
     "parse_all_images_in_document"}

\* a legacy text path, a preset text warp or a text effect anywhere below p
HasWordArtMarker(p) ==
    \/ Found(FindAllDesc(p, "v:textpath"))
    \/ Found(FindAllDesc(p, "a:prstTxWarp"))
    \/ Found(FindAllDesc(p, "w14:textEffect"))

\* the w:p node a paragraph record of the summary was made from
ParagraphNode(para) == FindAllDesc(ReadEntry(archive, para.source).root, "w:p")[para.idx]

RunTextsOf(runs) == Join([k \in 1..Len(runs) |-> runs[k].text])

\* C1: no paragraph node that contains a text path, a preset text warp or a
\* text effect anywhere below it is in the paragraph collection of the
\* summary.
C1_NoCarrierAmongParagraphs ==
    \A k \in 1..Len(summary.paragraphs) :
        ~HasWordArtMarker(ParagraphNode(summary.paragraphs[k]))

\* the number of WordArt elements of the summary that the detectors emitted
\* for nodes at or below p
EmittedFor(p, part_name) ==
    Len(SelectSeq(summary.WordArt,
                  LAMBDA e : e \in Range(DrawingParser_parse(p, part_name))))

\* C2: once DrawingParser.parse has run on a part, every paragraph node of
\* the part that contains a text path, a preset text warp or a text effect
\* has exactly one element in the WordArt collection.
C2_CarrierExactlyOnceInWordArt ==
    \A k \in Called("DrawingParser.parse") :
        \A p \in Range(FindAllDesc(PartRoot(k), "w:p")) :
            HasWordArtMarker(p) => EmittedFor(p, PartName(k)) = 1

\* C3: for every paragraph of the summary, after parse_paragraphs and after
\* _merge_similar_runs alike, the texts of its runs concatenated in order
\* are the text of the paragraph.
C3_RunTextsAreParagraphText ==
    \A k \in 1..Len(summary.paragraphs) :
        RunTextsOf(summary.paragraphs[k].runs) = summary.paragraphs[k].text

\* C4: on a valid archive summarize always returns a summary, whatever the
\* parts contain; it raises only for a file that is not a valid archive.
C4_ValidArchiveAlwaysReturns ==
    (pc = "done" /\ archive.kind = "valid") => result = "returned"

\* the concatenation over the parts in archive order of what parser yields
ConcatParts(parser(_, _)) ==
    Join([k \in 1..Len(archive.entries) |->
            IF k \in ParsableParts THEN parser(PartRoot(k), PartName(k)) ELSE <<>>])

\* C5: after the loop over the parts, the table and image collections hold
\* the tables and images of every part, in archive order.
C5_TablesAndImagesOfAllParts ==
    pc \in {"merge_runs", "merge_sources"} =>
        /\ summary.tables = ConcatParts(parse_tables)
        /\ summary.images = ConcatParts(parse_images)

\* the parts skipped because get_xml gave None
SkippedParts == {k \in Called("get_xml") : ~get_xml(archive, PartName(k))}

\* the diagnostics that are not table or image counts
PartNotices ==
    {j \in 1..Len(summary.hints) : summary.hints[j][1] \notin {"tables", "images"}}

\* C6: a part that is not well-formed XML is skipped with a diagnostic in
\* the diagnostics list, and every other eligible part is still handed to
\* the four parsers.
C6_UnparsablePartSkippedWithNotice ==
    /\ Cardinality(PartNotices) >= Cardinality(SkippedParts)
    /\ \A k \in SkippedParts : \A f \in Parsers : k \notin Called(f)
    /\ pc = "merge_runs" => \A k \in ParsableParts : \A f \in Parsers : k \in Called(f)

\* C7: a file that is not a zip archive, or whose integrity check names a
\* corrupt entry, makes summarize fail with ValueError before any entry is
\* read or parsed; no other failure gives ValueError.
C7_InvalidArchiveFailsFast ==
    /\ (pc = "done" /\ archive.kind \in {"notzip", "corrupt"}) =>
            (result = "ValueError" /\ trace = <<>>)
    /\ result = "ValueError" => archive.kind \in {"notzip", "corrupt"}

C7_Witness == pc = "done" /\ archive.kind = "corrupt" /\ result = "ValueError"

\* C8: _merge_runs_by_style applied to its own output returns that output.
C8_MergeIdempotent == phase = "remerged" => runs_again = runs_out

\* the input runs that have text
NonEmptyRuns(runs) == SelectSeq(runs, LAMBDA r : r.text # <<>> /\ r.text # NoneText)

\* C9: the texts of the runs _merge_runs_by_style returns, concatenated, are
\* the concatenation of the non-empty input texts in input order.
C9_MergeKeepsText ==
    phase \in {"merged", "remerged"} => RunTextsOf(runs_out) = RunTextsOf(NonEmptyRuns(runs_in))

\* runs were merged across an empty run, and a second group follows
C9_Witness ==
    /\ phase = "merged"
    /\ \E k \in 1..Len(runs_in) : runs_in[k].text = <<>>
    /\ Len(runs_out) >= 1
    /\ Len(runs_out) < Len(NonEmptyRuns(runs_in))

\* C10: in the summary summarize returns, every run of every paragraph has
\* a non-empty text.
C10_NoEmptyRunReturned ==
    result = "returned" =>
        \A k \in 1..Len(summary.paragraphs) :
            \A j \in 1..Len(summary.paragraphs[k].runs) :
                /\ summary.paragraphs[k].runs[j].text # <<>>
                /\ summary.paragraphs[k].runs[j].text # NoneText

\* a returned paragraph that keeps runs and whose node had runs without text
C10_Witness ==
    /\ result = "returned"
    /\ \E k \in 1..Len(summary.paragraphs) :
        /\ summary.paragraphs[k].runs # <<>>
        /\ \E r \in Range(FindAllChild(ParagraphNode(summary.paragraphs[k]), "w:r")) :
                RunOf(r).text \in {<<>>, NoneText}

\* the paragraphs of the summary whose trimmed text is t
ParagraphsOf(t) == SelectSeq(summary.paragraphs, LAMBDA para : Strip(para.text) = t)

\* the texts of the paragraphs of the summary, trimmed, the empty one left out
ParagraphTexts == {Strip(para.text) : para \in Range(summary.paragraphs)} \ {<<>>}

\* the colours of the runs of the given paragraphs
RunColours(paras) ==
    UNION {{r.style.color : r \in {x \in Range(para.runs) : "color" \in x.style.keys}} :
           para \in Range(paras)}

\* the entries of the merged styles whose text is t
MergedEntries(t) == SelectSeq(summary.merged, LAMBDA e : e.text = t)

\* C11: in the summary summarize returns, every non-empty trimmed paragraph
\* text has exactly one merged entry; the sources of the entry include every
\* part with a paragraph of that text, and its colours are the colours of
\* the runs of all these paragraphs.
C11_OneEntryPerText ==
    result = "returned" =>
        \A t \in ParagraphTexts :
            /\ Len(MergedEntries(t)) = 1
            /\ {para.source : para \in Range(ParagraphsOf(t))}
                    \subseteq Range(MergedEntries(t)[1].sources)
            /\ Range(MergedEntries(t)[1].color) = RunColours(ParagraphsOf(t))

\* one text found in two parts, in red and in blue: one entry, two sources,
\* two colours
C11_Witness ==
    /\ result = "returned"
    /\ \E t \in ParagraphTexts :
        /\ Len(MergedEntries(t)) = 1
        /\ Len(MergedEntries(t)[1].sources) = 2
        /\ Range(MergedEntries(t)[1].color) = {<<"#", "FF0000">>, <<"#", "0000FF">>}

\* the WordArt elements of the summary that have text
TextWordArt == {wa \in Range(summary.WordArt) : ~Falsy(wa.text) /\ ~Falsy(Strip(wa.text))}

\* C12: in the summary summarize returns, the merged entry of the text of
\* every WordArt element with text is flagged as decorated and lists the
\* font, the size and the colour of the element.
C12_WordArtStyleMerged ==
    result = "returned" =>
        \A wa \in TextWordArt :
            \E k \in 1..Len(summary.merged) :
                /\ summary.merged[k].text = Strip(wa.text)
                /\ summary.merged[k].isWordArt
                /\ ~Falsy(wa.font) => wa.font \in Range(summary.merged[k].fonts)
                /\ wa.size # <<>> => wa.size[1] \in Range(summary.merged[k].size_pt)
                /\ ~Falsy(wa.color) => wa.color \in Range(summary.merged[k].color)
                /\ ~Falsy(wa.fill) => wa.fill \in Range(summary.merged[k].color)

\* C13: the step that runs merge_across_sources changes neither the
\* paragraph collection nor the WordArt collection of the summary.
C13_MergeLeavesCollections ==
    [][pc = "merge_sources" =>
        /\ summary'.paragraphs = summary.paragraphs
        /\ summary'.WordArt = summary.WordArt]_vars

\* a merge that had paragraphs with styled runs and WordArt to read
C13_Witness ==
    /\ result = "returned"
    /\ summary.merged # <<>>
    /\ summary.WordArt # <<>>
    /\ \E k \in 1..Len(summary.paragraphs) :
        \E j \in 1..Len(summary.paragraphs[k].runs) :
            summary.paragraphs[k].runs[j].style.keys # {}

\* C14: a second invocation of summarize on the same file returns the
\* summary the first one returned, the order of every list included.
C14_SecondInvocationSameSummary ==
    (result = "returned" /\ previous # <<>>) => summary = previous[1]

\* the part the last call was made on when that call went to callee, else 0
JustParsed(callee) ==
    IF trace # <<>> /\ trace[Len(trace)][1] = callee THEN trace[Len(trace)][2] ELSE 0

\* a drawing node with a binary reference: an a:blip with an embed id
HasBlip(drawing) ==
    /\ Found(FindAllDesc(drawing, "a:blip"))
    /\ ~Falsy(AttrGet(First(FindAllDesc(drawing, "a:blip")), "r:embed"))

\* a legacy picture node with a binary reference: v:shape//v:imagedata
\* with a relationship id
HasImageData(pict) ==
    /\ Found(StepDesc(FindAllDesc(pict, "v:shape"), "v:imagedata"))
    /\ ~Falsy(AttrGet(First(StepDesc(FindAllDesc(pict, "v:shape"), "v:imagedata")), "r:id"))

\* a legacy picture node whose style attribute cannot be read
MalformedPict(pict) ==
    /\ HasImageData(pict)
    /\ StyleDictRaises(AttrGetDefault(First(FindAllDesc(pict, "v:shape")), "style", <<>>))

\* the number of well-formed image nodes of a part
WellFormedImageNodes(root) ==
    Len(SelectSeq(FindAllDesc(root, "w:drawing"), HasBlip))
    + Len(SelectSeq(FindAllDesc(root, "w:pict"),
                    LAMBDA pict : HasImageData(pict) /\ ~MalformedPict(pict)))

\* the images of the summary that come from part k
ImagesOfPart(k) == SelectSeq(summary.images, LAMBDA e : e.source = PartName(k))

\* C15: once the images of a part have been parsed, every well-formed image
\* node of the part has its entry whatever the other image nodes are, and
\* when the extraction of an image node failed the summary holds at least
\* one diagnostic.
C15_ImageFailureIsLocal ==
    LET k == JustParsed("parse_all_images_in_document")
    IN  k # 0 =>
            /\ Len(ImagesOfPart(k)) = WellFormedImageNodes(PartRoot(k))
            /\ (\E pict \in Range(FindAllDesc(PartRoot(k), "w:pict")) : MalformedPict(pict))
                    => summary.hints # <<>>

\* C16: once the images of a part have been parsed, the d-th drawing node
\* of the part has a DrawingML entry with its relationship id if and only
\* if it has an a:blip with a non-empty embed id.
C16_ModernImageIffBlip ==
    LET k == JustParsed("parse_all_images_in_document")
    IN  k # 0 =>
            \A d \in 1..Len(FindAllDesc(PartRoot(k), "w:drawing")) :
                LET drawing == FindAllDesc(PartRoot(k), "w:drawing")[d]
                IN  HasBlip(drawing) <=>
                        \E e \in Range(ImagesOfPart(k)) :
                            /\ e.kind = "DrawingML"
                            /\ e.index = d
                            /\ e.rid = AttrGet(First(FindAllDesc(drawing, "a:blip")), "r:embed")

\* the w:tbl node a table entry of the summary was made from
TableNode(entry) == FindAllDesc(ReadEntry(archive, entry.source).root, "w:tbl")[entry.index]

\* C17: for every table of the summary that has a row, the column count is
\* the number of cells of the first row of the table.
C17_ColumnCountIsFirstRow ==
    \A e \in Range(summary.tables) :
        LET rows == FindAllChild(TableNode(e), "w:tr")
        IN  rows # <<>> => e.col_count = Len(FindAllChild(First(rows), "w:tc"))

\* the cells of the grid of a table entry, and those with text
GridCells(entry) == Join(entry.data)
FilledCells(entry) == SelectSeq(GridCells(entry), LAMBDA c : Strip(c.text) # <<>>)

C19_ConversionNeverRaises ==
    ~(pc = "done" /\ result = "Exception" /\ JustParsed("parse_paragraphs") # 0)

\* C20: whenever summarize has returned or raised, the archive handle is
\* closed.
C20_HandleClosedOnExit == pc = "done" => ~zip_open

\* summarize left by an exception raised while a part was parsed, after a
\* part had been parsed in full with the handle open
C20_Witness ==
    /\ pc = "done"
    /\ result = "Exception"
    /\ ~zip_open
    /\ \E k \in Called("parse_all_images_in_document") : JustParsed("parse_paragraphs") > k

\* the entry names summarize is to parse: below word/, ending in .xml, no
\* /_rels/ in them
IsWordXmlName(name) == StartsWithWord(name) /\ EndsWithXml(name) /\ ~ContainsRels(name)

\* the names the records of a collection of the summary give as their source
SourcesOf(records) == {records[k].source : k \in 1..Len(records)}

\* C21: an entry is handed to get_xml and to the parsers only if its name
\* starts with word/, ends with .xml and has no /_rels/ in it; no record of
\* the paragraphs, WordArt, tables or images of the summary, and no source
\* of a merged entry, comes from any other entry.
C21_OnlyWordXmlEntriesContribute ==
    /\ \A i \in 1..Len(trace) :
            trace[i][2] # 0 => IsWordXmlName(PartName(trace[i][2]))
    /\ \A n \in SourcesOf(summary.paragraphs) \cup SourcesOf(summary.WordArt)
                \cup SourcesOf(summary.tables) \cup SourcesOf(summary.images)
                \cup UNION {Range(summary.merged[k].sources) : k \in 1..Len(summary.merged)} :
            IsWordXmlName(n)

\* summarize has returned a summary with paragraphs for an archive that
\* holds a relationship part with paragraphs of its own
C21_Witness ==
    /\ result = "returned"
    /\ summary.paragraphs # <<>>
    /\ summary.merged # <<>>
    /\ \E k \in 1..Len(archive.entries) : PartName(k) = RelsName

\* the runs of the w:r children of a paragraph node that have text, as
\* parse_paragraphs reads them
TextRunsOf(p) == SelectSeq(Map(FindAllChild(p, "w:r"), RunOf), LAMBDA r : HasText(r.text))

\* the length of the texts of the first n runs taken together
TextLenUpTo(runs, n) == Len(RunTextsOf(SubSeq(runs, 1, n)))

\* C23: after both merge passes, two adjacent runs of a paragraph whose
\* styles differ in any field (named style, font slots, size, bold, italic,
\* underline, strike, colour, shading, character spacing, a field missing
\* against present) are not in one run of the summary: the place where the
\* first ends is a place where a run of the summary ends.
C23_DifferingRunsStaySeparate ==
    <<"_merge_similar_runs", 0>> \in Range(trace) =>
        \A k \in 1..Len(summary.paragraphs) :
            LET para == summary.paragraphs[k]
                read == TextRunsOf(ParagraphNode(para))
            IN  \A i \in 1..(Len(read) - 1) :
                    read[i].style # read[i + 1].style =>
                        \E j \in 1..Len(para.runs) :
                            TextLenUpTo(para.runs, j) = TextLenUpTo(read, i)

\* C24: _merge_runs_by_style gives for a run sequence what it gives for the
\* sequence without its runs of no text: such a run is dropped and does not
\* end the merge that is under way.
C24_EmptyRunDoesNotEndMerge ==
    phase \in {"merged", "remerged"} =>
        runs_out = merge_runs_by_style(NonEmptyRuns(runs_in))

\* the nodes of a part for which DrawingParser.parse emits a WordArt
\* element: every text effect, every drawing whose text box has text, every
\* legacy shape with a text path
EmittingNodes(root, part_name) ==
    Range(FindAllDesc(root, "w14:textEffect"))
    \cup {d \in Range(FindAllDesc(root, "w:drawing")) : parse_w_drawing(d, part_name) # <<>>}
    \cup {s \in Range(FindAllDesc(root, "v:shape")) : parse_vml_wordart(s, part_name) # <<>>}

\* C25: once DrawingParser.parse has run on a part, no paragraph record of
\* the part is of a paragraph node that encloses a node a WordArt element
\* was emitted for (a drawing text box without warp included), nor of one
\* that lies inside such a node.
C25_WordArtNodeNotAlsoParagraph ==
    \A k \in Called("DrawingParser.parse") :
        \A n \in EmittingNodes(PartRoot(k), PartName(k)) :
            \A i \in 1..Len(summary.paragraphs) :
                summary.paragraphs[i].source = PartName(k) =>
                    LET p == ParagraphNode(summary.paragraphs[i])
                    IN  /\ n \notin Range(FindAllDesc(p, n.tag))
                        /\ p \notin Range(FindAllDesc(n, "w:p"))

\* C26: once DrawingParser.parse has run on a part, at most one WordArt
\* element of the summary was emitted for any one drawing or legacy picture
\* of the part: a drawing whose text box holds a text effect does not give
\* two.
C26_OneElementPerDecoratedNode ==
    \A k \in Called("DrawingParser.parse") :
        \A d \in Range(FindAllDesc(PartRoot(k), "w:drawing"))
                 \cup Range(FindAllDesc(PartRoot(k), "w:pict")) :
            EmittedFor(E("w:r", <<d>>), PartName(k)) <= 1

\* the places of the trace where the given call was made
PlacesOf(callee, k) == {i \in 1..Len(trace) : trace[i] = <<callee, k>>}

\* the order of the calls: when _merge_similar_runs starts, every part that
\* is to be parsed has been handed to its four parsers, and no call on a
\* part follows; merge_across_sources is called at most once, after
\* _merge_similar_runs, and is the last call; a returned summary has had
\* exactly one call of each
MergePassesInOrder ==
    /\ \A i \in PlacesOf("_merge_similar_runs", 0) :
            /\ \A k \in ParsableParts : \A callee \in Parsers :
                    \E j \in PlacesOf(callee, k) : j < i
            /\ \A j \in (i + 1)..Len(trace) : trace[j][2] = 0
    /\ \A i \in PlacesOf("merge_across_sources", 0) :
            /\ i = Len(trace)
            /\ PlacesOf("_merge_similar_runs", 0) = {i - 1}
    /\ result = "returned" =>
            /\ Cardinality(PlacesOf("merge_across_sources", 0)) = 1
            /\ Cardinality(PlacesOf("_merge_similar_runs", 0)) = 1

\* the step of _merge_similar_runs gives every paragraph with runs the
\* runs merged by style and leaves the other paragraphs alone
MergePassVisitsEveryParagraph ==
    pc = "merge_runs" =>
        /\ Len(summary'.paragraphs) = Len(summary.paragraphs)
        /\ \A k \in 1..Len(summary.paragraphs) :
                summary'.paragraphs[k].runs =
                    IF summary.paragraphs[k].runs = <<>> THEN <<>>
                    ELSE merge_runs_by_style(summary.paragraphs[k].runs)

\* C27: _merge_similar_runs starts only after the last part to parse has
\* been handed to all four parsers and visits every paragraph;
\* merge_across_sources runs exactly once, after it; no parser runs after
\* either pass.
C27_MergePassesAfterParsers ==
    []MergePassesInOrder /\ [][MergePassVisitsEveryParagraph]_vars

\* summarize has returned for an archive of two parsed parts with a
\* paragraph each, the second of which had runs to merge by style
C27_Witness ==
    /\ result = "returned"
    /\ Cardinality(ParsableParts) = 2
    /\ Len(summary.paragraphs) = 2
    /\ Len(summary.paragraphs[2].runs) < Len(TextRunsOf(ParagraphNode(summary.paragraphs[2])))
    /\ summary.paragraphs[1].source # summary.paragraphs[2].source

\* the summary s after one of the four parsers has run on the k-th entry
AfterParser(callee, k, s) ==
    CASE callee = "parse_paragraphs" ->
            [s EXCEPT !.paragraphs = @ \o parse_paragraphs(PartRoot(k), PartName(k)).paragraphs]
      [] callee = "DrawingParser.parse" ->
            [s EXCEPT !.WordArt = @ \o DrawingParser_parse(PartRoot(k), PartName(k))]
      [] callee = "parse_all_tables_in_document" ->
            parse_all_tables_in_document(PartRoot(k), PartName(k), s)
      [] callee = "parse_all_images_in_document" ->
            parse_all_images_in_document(PartRoot(k), PartName(k), s)

\* the orders the four parsers can be called in
ParserOrders == {o \in [1..4 -> Parsers] : Range(o) = Parsers}

SourceOrder ==
    <<"parse_paragraphs", "DrawingParser.parse", "parse_all_tables_in_document",
      "parse_all_images_in_document">>

\* the summary s after the four parsers have run on the k-th entry in the
\* order o
AfterParsers(o, k, s) ==
    AfterParser(o[4], k, AfterParser(o[3], k, AfterParser(o[2], k, AfterParser(o[1], k, s))))

\* C28: for a part that its four parsers get through, the summary after
\* the four calls is the same in whatever order they are made, the order of
\* the notices included.
C28_ParserOrderIrrelevant ==
    (pc = "paragraphs" /\ ~parse_paragraphs(PartRoot(pos), PartName(pos)).raised) =>
        \A o \in ParserOrders :
            AfterParsers(o, pos, summary) = AfterParsers(SourceOrder, pos, summary)

\* C22: for every integer EMU input emu_to_cm returns the input divided by
\* 360000 rounded to three decimal places (the result is within half a
\* thousandth of the quotient): 360000 gives 1.000 and 1260000 gives 3.500.
C22_EmuToCmRounded ==
    (unit_pc = "emu_done" /\ ParseSignedInt(unit_in) # <<>>) =>
        LET n == ParseSignedInt(unit_in)[1]
        IN  /\ unit_out # <<>>
            /\ 2 * (unit_out[1] * 360 - n) <= 360
            /\ 2 * (n - unit_out[1] * 360) <= 360
            /\ n = 360000 => unit_out = <<1000>>
            /\ n = 1260000 => unit_out = <<3500>>

\* emu_to_cm has returned 3.5 for 1260000
C22_Witness ==
    /\ unit_pc = "emu_done"
    /\ unit_in = <<"1", "2", "6", "0", "0", "0", "0">>
    /\ unit_out = <<3500>>

\* the width a cell gives in twips: <<w>> for a w:tcW of type dxa whose w:w
\* is an integer
DxaWidthOf(cell) ==
    LET tcW == FindAllDesc(cell, "w:tcW")
    IN  IF Found(tcW) /\ AttrGet(First(tcW), "w:type") = <<"dxa">>
        THEN ParseInt(AttrGet(First(tcW), "w:w")) ELSE <<>>

\* C29: for every cell whose width is w twips (type dxa, w an integer)
\* _parse_cell_properties records the width in points as w / 20 (5 w
\* hundredths of a point).
C29_CellWidthIsTwipsOver20 ==
    (unit_pc = "cell_done" /\ DxaWidthOf(unit_in) # <<>>) =>
        /\ "width_pt" \in unit_out.keys
        /\ unit_out.width_pt = <<5 * DxaWidthOf(unit_in)[1]>>

\* the rows of the store whose JSON is the given normalized JSON
RowsWith(norm) == {i \in 1..Len(store) : store[i].json = norm}

\* the store never holds two rows with the same normalized JSON; the row of
\* every call that returned True is in the store; at most one call is
\* between taking the lock and releasing it
StoreIsConsistent ==
    /\ \A i, j \in 1..Len(store) : i # j => store[i].json # store[j].json
    /\ \A p \in Procs :
            calls[p].ret = "True" =>
                \E i \in 1..Len(store) : store[i] = [json |-> calls[p].norm, filename |-> p]
    /\ Cardinality({p \in Procs : calls[p].pc \in {"read", "check", "release"}}) <= 1

\* a call whose normalized JSON is in the store returns False and leaves
\* the store as it is
DuplicateIsRefused ==
    \A p \in Procs :
        (calls[p].pc = "check" /\ calls'[p].pc = "release" /\ RowsWith(calls[p].norm) # {}) =>
            (calls'[p].ret = "False" /\ store' = store)

\* C30: under any interleaving of the calls of check_and_insert on one
\* store the read, the duplicate test, the append and the write of a call
\* are one critical section: the store never holds two rows with the same
\* normalized JSON, the row of every call that returned True stays in the
\* store, and a call whose normalized JSON is stored returns False and
\* leaves the store unchanged.
C30_InsertIsOneCriticalSection ==
    []StoreIsConsistent /\ [][DuplicateIsRefused]_vars

====
